---- MODULE Spec2Model ----
(***************************************************************************)
(* A model of the project analysis engine of folder2github                 *)
(* (src/src/analyzer.ts, src/src/utils/cache.ts).                          *)
(*                                                                         *)
(* JavaScript strings are modelled as sequences of one-character strings,  *)
(* so that substring search, splitting, trimming and lower-casing are      *)
(* computed as the code computes them.                                     *)
(***************************************************************************)
EXTENDS Integers, Sequences, FiniteSets, TLC

VARIABLES
    clsFiles,      \* classification: the FileListing handed to the classifier
    clsLanguages,  \* classification: result of detectLanguages, or UnsetSeq
    clsType,       \* classification: result of inferProjectType, or Unset
    reqFile,       \* requirements.txt: whether it is listed, whether the read succeeds, its text
    reqDeps,       \* requirements.txt: the packageDeps array
    reqPc,         \* requirements.txt: "start" before analyzeRequirementsTxt, "done" after
    metFiles,      \* metrics: the files of the listing: path, byte size, whether stat succeeds
    metResults,    \* metrics: one slot per metric task: settled?, size, complexity
    metPc,         \* metrics: "start", "tasks" (awaiting Promise.all), "done"
    metOut,        \* metrics: the record calculateMetrics returned
    metPrev,       \* metrics: the record returned before one file grew
    fs,            \* analyze: the source folder
    cacheFiles,    \* analyze: the entry files of the cache directory, by key
    now,           \* analyze: Date.now()
    clears,        \* analyze: how often the cache directory has been emptied
    calls,         \* analyze: the analyze() calls, each with its position and locals
    scanTree,      \* scan: the files on disk below the scanned folder, as relative paths
    scanOut,       \* scan: whether scanFiles has returned, and the FileListing it returned
    frHome,        \* cache frame: os.homedir()
    frSource,      \* cache frame: the source path given to analyze()
    frDisk,        \* cache frame: the directories that exist
    frCreated,     \* cache frame: the paths analyze() has created or written
    frPc,          \* cache frame: position of the analyze() call
    shOpts,        \* safe script: the option flags of the run
    shTarget,      \* safe script: whether the target directory existed when the run began
    shPc,          \* safe script: position in main
    shEffects,     \* safe script: the changes made to the disk, in order
    shExit,        \* safe script: the exit status, as a set that is empty while running
    crOpts,        \* create pipeline: the options, and how the environment answers
    crPc,          \* create pipeline: "start", then "done" or "failed"
    crAnalysis,    \* create pipeline: whether Folder2GitHub.analysis is set
    crTargetDir,   \* create pipeline: whether Folder2GitHub.targetDir is set
    crEffects,     \* create pipeline: what the run did, in order
    crReport,      \* create pipeline: the closing message, or Unset
    crCalls,       \* create pipeline: the methods of Folder2GitHub that were called, in order
    crError,       \* create pipeline: the message of the error the last call threw, or Unset
    keyStat,       \* cache key: mtime and size of each folder on disk, by absolute path
    keyStore,      \* cache key: the cache entries, as the folder each key's entry was computed from
    keyLog,        \* cache key: the analyze() calls made: working directory, path string, key, hit
    cpProgress,    \* copy: current and total of the ProgressTracker of the FileOperations
    cpListeners,   \* copy: how many 'progress' listeners the tracker holds
    cpEvents,      \* copy: the progress events emitted, in order
    cpRun          \* copy: the copyDirectory call under way, and how many calls were made

varsClassify == <<clsFiles, clsLanguages, clsType>>
varsRequirements == <<reqFile, reqDeps, reqPc>>
varsMetrics == <<metFiles, metResults, metPc, metOut, metPrev>>
varsAnalyze == <<fs, cacheFiles, now, clears, calls>>
varsScan == <<scanTree, scanOut>>
varsFrame == <<frHome, frSource, frDisk, frCreated, frPc>>
varsSafe == <<shOpts, shTarget, shPc, shEffects, shExit>>
varsCreate == <<crOpts, crPc, crAnalysis, crTargetDir, crEffects, crReport, crCalls, crError>>
varsKey == <<keyStat, keyStore, keyLog>>
varsCopy == <<cpProgress, cpListeners, cpEvents, cpRun>>
varsTools == <<varsScan, varsFrame, varsSafe, varsCreate, varsKey, varsCopy>>
vars == <<clsFiles, clsLanguages, clsType, reqFile, reqDeps, reqPc,
          metFiles, metResults, metPc, metOut, metPrev,
          fs, cacheFiles, now, clears, calls,
          scanTree, scanOut, frHome, frSource, frDisk, frCreated, frPc,
          shOpts, shTarget, shPc, shEffects, shExit,
          crOpts, crPc, crAnalysis, crTargetDir, crEffects, crReport, crCalls, crError,
          keyStat, keyStore, keyLog, cpProgress, cpListeners, cpEvents, cpRun>>

Unset == "unset"          \* a result that is not computed yet
UnsetSeq == <<"unset">>   \* the same, for a result that is an array

(***************************************************************************)
(* Bounds of the model.                                                    *)
(***************************************************************************)
MaxListing == 3    \* longest FileListing given to the classifier
MaxReqLines == 2   \* most lines of a requirements.txt
MaxMetricFiles == 2  \* longest listing given to calculateMetrics
MaxCalls == 2      \* analyze() calls made in one behaviour
MaxDisturbances == 1  \* files of the folder that fail, plus edits of the folder
MaxTicks == 3      \* clock advances in one behaviour, each of maxAge / 2
MaxClears == 1     \* times the cache directory is emptied in one behaviour

(***************************************************************************)
(* Strings.                                                                *)
(***************************************************************************)
Range(s) == {s[i] : i \in 1..Len(s)}

UpperChars == <<"A","B","C","D","E","F","G","H","I","J","K","L","M",
                "N","O","P","Q","R","S","T","U","V","W","X","Y","Z">>
LowerChars == <<"a","b","c","d","e","f","g","h","i","j","k","l","m",
                "n","o","p","q","r","s","t","u","v","w","x","y","z">>

\* String.prototype.toLowerCase, one character
toLowerChar(c) ==
    IF \E i \in 1..Len(UpperChars) : UpperChars[i] = c
    THEN LowerChars[CHOOSE i \in 1..Len(UpperChars) : UpperChars[i] = c]
    ELSE c

\* String.prototype.toLowerCase
toLowerCase(s) == [i \in 1..Len(s) |-> toLowerChar(s[i])]

\* String.prototype.includes
includes(s, sub) ==
    \E i \in 1..(Len(s) - Len(sub) + 1) : SubSeq(s, i, i + Len(sub) - 1) = sub

\* String.prototype.endsWith
endsWith(s, suffix) ==
    /\ Len(suffix) <= Len(s)
    /\ SubSeq(s, Len(s) - Len(suffix) + 1, Len(s)) = suffix

\* String.prototype.startsWith
startsWith(s, prefix) ==
    /\ Len(prefix) <= Len(s)
    /\ SubSeq(s, 1, Len(prefix)) = prefix

\* Array.prototype.join(sep) over an array of strings
RECURSIVE join(_, _)
join(strs, sep) ==
    IF Len(strs) = 0 THEN <<>>
    ELSE IF Len(strs) = 1 THEN strs[1]
    ELSE strs[1] \o sep \o join(Tail(strs), sep)

\* RegExp.prototype.test for a pattern that is an alternation of literals,
\* /k1|k2|.../ : true when some literal occurs in s
regexTest(keywords, s) == \E k \in keywords : includes(s, k)

\* index of the last occurrence of character c in s, 0 when there is none
lastIndexOf(s, c) ==
    IF \E i \in 1..Len(s) : s[i] = c
    THEN CHOOSE i \in 1..Len(s) : s[i] = c /\ \A j \in (i+1)..Len(s) : s[j] # c
    ELSE 0

\* path.basename (posix), for a relative path without a trailing slash
basename(p) == SubSeq(p, lastIndexOf(p, "/") + 1, Len(p))

\* path.extname (posix): from the last "." of the basename to its end; ""
\* when there is no "." or the only "." is the basename's first character
extname(p) ==
    LET b == basename(p)
        d == lastIndexOf(b, ".")
    IN  IF d = 0 \/ d = 1 \/ b = <<".", ".">> THEN <<>>
        ELSE SubSeq(b, d, Len(b))

(***************************************************************************)
(* String literals of the analyzer.                                        *)
(***************************************************************************)
K_memory == <<"m","e","m","o","r","y">>
K_guardian == <<"g","u","a","r","d","i","a","n">>
K_leak == <<"l","e","a","k">>
K_monitoring == <<"m","o","n","i","t","o","r","i","n","g">>
K_metrics == <<"m","e","t","r","i","c","s">>
K_api == <<"a","p","i">>
K_server == <<"s","e","r","v","e","r">>
K_test == <<"t","e","s","t">>
K_automation == <<"a","u","t","o","m","a","t","i","o","n">>
K_ci == <<"c","i">>
K_cd == <<"c","d">>
K_clipboard == <<"c","l","i","p","b","o","a","r","d">>
K_copy == <<"c","o","p","y">>
K_paste == <<"p","a","s","t","e">>
K_kde == <<"k","d","e">>
K_plasma == <<"p","l","a","s","m","a">>
K_desktop == <<"d","e","s","k","t","o","p">>

E_py == <<".","p","y">>
E_rs == <<".","r","s">>
E_sh == <<".","s","h">>
E_bash == <<".","b","a","s","h">>
E_zsh == <<".","z","s","h">>
E_ts == <<".","t","s">>
E_js == <<".","j","s">>
E_go == <<".","g","o">>
E_c == <<".","c">>
E_cpp == <<".","c","p","p">>
E_cc == <<".","c","c">>
E_cxx == <<".","c","x","x">>
E_service == <<".","s","e","r","v","i","c","e">>
E_timer == <<".","t","i","m","e","r">>

(***************************************************************************)
(* Paths the bounded listings are drawn from.                              *)
(***************************************************************************)
P_api_server_py == <<"a","p","i","/","s","e","r","v","e","r",".","p","y">>
P_clipboard_copy_py == <<"c","l","i","p","b","o","a","r","d","/","c","o","p","y",".","p","y">>
P_main_rs == <<"m","a","i","n",".","r","s">>
P_script_sh == <<"s","c","r","i","p","t",".","s","h">>
P_index_ts == <<"i","n","d","e","x",".","t","s">>
P_run_timer == <<"r","u","n",".","t","i","m","e","r">>
P_Guardian_c == <<"G","u","a","r","d","i","a","n",".","c">>
P_kde_panel_cpp == <<"k","d","e","/","p","a","n","e","l",".","c","p","p">>
P_notes_txt == <<"n","o","t","e","s",".","t","x","t">>
P_lib_test_js == <<"l","i","b",".","t","e","s","t",".","j","s">>
P_app_service == <<"a","p","p",".","s","e","r","v","i","c","e">>

ClassifyPaths ==
    { P_api_server_py, P_clipboard_copy_py, P_main_rs, P_script_sh, P_index_ts,
      P_run_timer, P_Guardian_c, P_kde_panel_cpp, P_notes_txt, P_lib_test_js,
      P_app_service }

\* the listings of at most n distinct paths drawn from S (a scan lists each
\* file once)
Listings(S, n) ==
    UNION { { l \in [1..k -> S] : \A i, j \in 1..k : i # j => l[i] # l[j] }
            : k \in 0..n }

(***************************************************************************)
(* Classifier: detectLanguages.                                            *)
(***************************************************************************)
languageMap ==
    (E_py :> "python") @@ (E_rs :> "rust") @@ (E_sh :> "shell") @@
    (E_bash :> "shell") @@ (E_zsh :> "shell") @@ (E_ts :> "typescript") @@
    (E_js :> "javascript") @@ (E_go :> "go") @@ (E_c :> "c") @@
    (E_cpp :> "cpp") @@ (E_cc :> "cpp") @@ (E_cxx :> "cpp")

\* Set.prototype.add on a Set kept as its insertion-ordered element list
setAdd(s, x) == IF x \in Range(s) THEN s ELSE Append(s, x)

\* a detectLanguages that collects into an array instead of a Set
RECURSIVE detectLanguagesNoDedup(_, _, _)
detectLanguagesNoDedup(files, i, languageSet) ==
    IF i > Len(files) THEN languageSet
    ELSE LET ext == extname(files[i])
         IN  IF ext \in DOMAIN languageMap
             THEN detectLanguagesNoDedup(files, i + 1, Append(languageSet, languageMap[ext]))
             ELSE detectLanguagesNoDedup(files, i + 1, languageSet)

\* the for-loop of detectLanguages from file i on, languageSet so far
RECURSIVE detectLanguagesLoop(_, _, _)
detectLanguagesLoop(files, i, languageSet) ==
    IF i > Len(files) THEN languageSet
    ELSE LET ext == extname(files[i])
         IN  IF ext \in DOMAIN languageMap
             THEN detectLanguagesLoop(files, i + 1, setAdd(languageSet, languageMap[ext]))
             ELSE detectLanguagesLoop(files, i + 1, languageSet)

detectLanguages(files) == detectLanguagesLoop(files, 1, <<>>)

(***************************************************************************)
(* Classifier: inferProjectType.                                           *)
(***************************************************************************)
patterns ==
    << [pattern |-> {K_memory, K_guardian, K_leak},             type |-> "memory-management"],
       [pattern |-> {K_monitoring, K_metrics, K_api, K_server}, type |-> "monitoring-api"],
       [pattern |-> {K_test, K_automation, K_ci, K_cd},         type |-> "automation"],
       [pattern |-> {K_clipboard, K_copy, K_paste},             type |-> "clipboard"],
       [pattern |-> {K_kde, K_plasma, K_desktop},               type |-> "kde-tools"] >>

\* a loop that keeps the last matching rule instead of returning at the first
RECURSIVE lastMatch(_, _)
lastMatch(fileContent, i) ==
    IF i > Len(patterns) THEN Unset
    ELSE LET later == lastMatch(fileContent, i + 1)
         IN  IF later # Unset THEN later
             ELSE IF regexTest(patterns[i].pattern, fileContent) THEN patterns[i].type
             ELSE Unset

\* the for-loop over the patterns from rule i on; Unset when none matches
RECURSIVE firstMatch(_, _)
firstMatch(fileContent, i) ==
    IF i > Len(patterns) THEN Unset
    ELSE IF regexTest(patterns[i].pattern, fileContent) THEN patterns[i].type
    ELSE firstMatch(fileContent, i + 1)

inferProjectType(files) ==
    LET fileContent == toLowerCase(join(files, <<" ">>))
        matched == firstMatch(fileContent, 1)
    IN  IF matched # Unset THEN matched
        ELSE IF \E i \in 1..Len(files) :
                    endsWith(files[i], E_service) \/ endsWith(files[i], E_timer)
        THEN "system-management"
        ELSE "general"

(***************************************************************************)
(* Specification of the classifier: a listing is drawn, then each of the   *)
(* two synchronous classifications is applied to it.                       *)
(***************************************************************************)
IdleClassify ==
    /\ clsFiles = <<>>
    /\ clsLanguages = UnsetSeq
    /\ clsType = Unset

IdleRequirements ==
    /\ reqFile = [listed |-> FALSE, ok |-> FALSE, text |-> <<>>]
    /\ reqDeps = <<>>
    /\ reqPc = "idle"

NoMetrics == [fileCount |-> 0, totalSize |-> 0, complexity |-> 0]

IdleMetrics ==
    /\ metFiles = <<>>
    /\ metResults = <<>>
    /\ metPc = "idle"
    /\ metOut = NoMetrics
    /\ metPrev = [valid |-> FALSE, metrics |-> NoMetrics]

IdleAnalyze ==
    /\ fs = [kind |-> "missing", mtime |-> 0, size |-> 0, tree |-> {},
             cond |-> <<>>, version |-> 0]
    /\ cacheFiles = <<>>
    /\ now = 0
    /\ clears = 0
    /\ calls = <<>>

NoListing == [done |-> FALSE, files |-> <<>>]

IdleScan ==
    /\ scanTree = {}
    /\ scanOut = NoListing

IdleFrame ==
    /\ frHome = <<>>
    /\ frSource = <<>>
    /\ frDisk = {}
    /\ frCreated = {}
    /\ frPc = "idle"

IdleSafe ==
    /\ shOpts = Unset
    /\ shTarget = FALSE
    /\ shPc = "idle"
    /\ shEffects = <<>>
    /\ shExit = {}

IdleCreate ==
    /\ crOpts = Unset
    /\ crPc = "idle"
    /\ crAnalysis = FALSE
    /\ crTargetDir = FALSE
    /\ crEffects = <<>>
    /\ crReport = Unset
    /\ crCalls = <<>>
    /\ crError = <<>>

IdleKey ==
    /\ keyStat = Unset
    /\ keyStore = {}
    /\ keyLog = <<>>

IdleCopy ==
    /\ cpProgress = Unset
    /\ cpListeners = 0
    /\ cpEvents = <<>>
    /\ cpRun = Unset

IdleTools == IdleScan /\ IdleFrame /\ IdleSafe /\ IdleCreate /\ IdleKey /\ IdleCopy

InitClassify ==
    /\ clsFiles \in Listings(ClassifyPaths, MaxListing)
    /\ clsLanguages = UnsetSeq
    /\ clsType = Unset
    /\ IdleRequirements
    /\ IdleMetrics
    /\ IdleAnalyze
    /\ IdleTools

DetectLanguages ==
    /\ clsLanguages = UnsetSeq
    /\ clsLanguages' = detectLanguages(clsFiles)
    /\ UNCHANGED <<clsFiles, clsType>>
    /\ UNCHANGED <<varsRequirements, varsMetrics, varsAnalyze, varsTools>>

InferProjectType ==
    /\ clsType = Unset
    /\ clsType' = inferProjectType(clsFiles)
    /\ UNCHANGED <<clsFiles, clsLanguages>>
    /\ UNCHANGED <<varsRequirements, varsMetrics, varsAnalyze, varsTools>>

NextClassify == DetectLanguages \/ InferProjectType

SpecClassify == InitClassify /\ [][NextClassify]_vars

(***************************************************************************)
(* C6.  inferProjectType returns exactly one archetype: that of the        *)
(* earliest rule, in the order memory-management, monitoring-api,          *)
(* automation, clipboard, kde-tools, whose pattern matches a lower-cased   *)
(* path; with no rule matching, system-management when some path ends in   *)
(* .service or .timer and general otherwise.  ["api/server.py"] yields     *)
(* monitoring-api, ["clipboard/copy.py"] yields clipboard, and the two     *)
(* together yield monitoring-api.                                          *)
(***************************************************************************)
RuleOrder == <<"memory-management", "monitoring-api", "automation", "clipboard", "kde-tools">>

ProjectTypes == Range(RuleOrder) \cup {"system-management", "general"}

\* the literals of the rule that names archetype t
KeywordsOf(t) ==
    UNION { patterns[r].pattern : r \in { q \in 1..Len(patterns) : patterns[q].type = t } }

\* rule number n of the claim's order matches some lower-cased path of the listing
RuleMatches(files, n) ==
    \E i \in 1..Len(files) : \E k \in KeywordsOf(RuleOrder[n]) :
        includes(toLowerCase(files[i]), k)

C6_FirstRuleWins ==
    clsType # Unset =>
        /\ clsType \in ProjectTypes
        /\ \A n \in 1..Len(RuleOrder) :
              (clsType = RuleOrder[n]) <=>
                  (RuleMatches(clsFiles, n) /\ \A m \in 1..(n - 1) : ~RuleMatches(clsFiles, m))
        /\ (\A n \in 1..Len(RuleOrder) : ~RuleMatches(clsFiles, n)) =>
              (clsType = "system-management") <=>
                  (\E i \in 1..Len(clsFiles) :
                        endsWith(clsFiles[i], E_service) \/ endsWith(clsFiles[i], E_timer))
        /\ (clsFiles = <<P_api_server_py>> => clsType = "monitoring-api")
        /\ (clsFiles = <<P_clipboard_copy_py>> => clsType = "clipboard")
        /\ (Range(clsFiles) = {P_api_server_py, P_clipboard_copy_py} => clsType = "monitoring-api")

\* a listing matching both the monitoring and the clipboard rule has been classified
C6_Witness ==
    /\ clsFiles = <<P_clipboard_copy_py, P_api_server_py>>
    /\ clsType = "monitoring-api"

(***************************************************************************)
(* C7.  detectLanguages returns exactly the languages the extension table  *)
(* assigns to the extensions occurring in the listing: none twice, nothing *)
(* for an extension outside the table, in order of first occurrence.       *)
(* main.rs, script.sh, index.ts yield {rust, shell, typescript}.           *)
(***************************************************************************)
\* the language of file i of the listing, Unset for an extension outside the table
LanguageAt(files, i) ==
    IF extname(files[i]) \in DOMAIN languageMap THEN languageMap[extname(files[i])] ELSE Unset

\* the position of the first file of the listing that has language l
FirstOccurrence(files, l) ==
    CHOOSE i \in 1..Len(files) :
        LanguageAt(files, i) = l /\ \A j \in 1..(i - 1) : LanguageAt(files, j) # l

C7_LanguageSet ==
    clsLanguages # UnsetSeq =>
        /\ \A a, b \in 1..Len(clsLanguages) : a # b => clsLanguages[a] # clsLanguages[b]
        /\ Range(clsLanguages) = { LanguageAt(clsFiles, i) : i \in 1..Len(clsFiles) } \ {Unset}
        /\ \A a, b \in 1..Len(clsLanguages) :
              a < b => FirstOccurrence(clsFiles, clsLanguages[a])
                           < FirstOccurrence(clsFiles, clsLanguages[b])
        /\ (Range(clsFiles) = {P_main_rs, P_script_sh, P_index_ts} =>
                Range(clsLanguages) = {"rust", "shell", "typescript"})

\* two files of one language, one of another and one outside the table were classified
C7_Witness ==
    /\ clsFiles = <<P_api_server_py, P_notes_txt, P_clipboard_copy_py>>
    /\ clsLanguages = <<"python">>

(***************************************************************************)
(* Dependency Extractor: analyzeRequirementsTxt.                           *)
(***************************************************************************)
Whitespace == {" ", "\t", "\r", "\n"}

\* String.prototype.trim
RECURSIVE trimStart(_)
trimStart(s) == IF Len(s) > 0 /\ s[1] \in Whitespace THEN trimStart(Tail(s)) ELSE s

RECURSIVE trimEnd(_)
trimEnd(s) ==
    IF Len(s) > 0 /\ s[Len(s)] \in Whitespace THEN trimEnd(SubSeq(s, 1, Len(s) - 1)) ELSE s

trim(s) == trimEnd(trimStart(s))

\* index of the first character of s that is in the set cs, 0 when there is none
firstIndexIn(s, cs) ==
    IF \E i \in 1..Len(s) : s[i] \in cs
    THEN CHOOSE i \in 1..Len(s) : s[i] \in cs /\ \A j \in 1..(i - 1) : s[j] \notin cs
    ELSE 0

\* content.split('\n')
RECURSIVE splitLines(_)
splitLines(content) ==
    LET n == firstIndexIn(content, {"\n"})
    IN  IF n = 0 THEN <<content>>
        ELSE <<SubSeq(content, 1, n - 1)>> \o splitLines(SubSeq(content, n + 1, Len(content)))

\* line.split(/[=<>]/)[0]: the text before the first "=", "<" or ">"
splitVersion0(line) ==
    LET n == firstIndexIn(line, {"=", "<", ">"})
    IN  IF n = 0 THEN line ELSE SubSeq(line, 1, n - 1)

\* .filter(line => line.trim() && !line.startsWith('#'))
keepLine(line) == trim(line) # <<>> /\ ~startsWith(line, <<"#">>)

\* Array.prototype.filter with keepLine, then Array.prototype.map
RECURSIVE filterMapLines(_)
filterMapLines(lines) ==
    IF Len(lines) = 0 THEN <<>>
    ELSE IF keepLine(lines[1])
         THEN <<trim(splitVersion0(lines[1]))>> \o filterMapLines(Tail(lines))
         ELSE filterMapLines(Tail(lines))

\* the packageDeps array after analyzeRequirementsTxt: left alone when
\* requirements.txt is not in the listing or the read throws
analyzeRequirementsTxt(file, packageDeps) ==
    IF ~file.listed THEN packageDeps
    ELSE IF ~file.ok THEN packageDeps
    ELSE packageDeps \o filterMapLines(splitLines(file.text))

(***************************************************************************)
(* Lines the bounded requirements files are drawn from.                    *)
(***************************************************************************)
L_flask_eq == <<"f","l","a","s","k","=","=","2",".","0">>
L_requests_ge == <<"r","e","q","u","e","s","t","s",">","=","2">>
L_six_le == <<"s","i","x"," ","<","="," ","1">>
L_numpy_lt == <<"n","u","m","p","y","<","2">>
L_tox_gt == <<"t","o","x",">","3">>
L_pkg_compat == <<"p","k","g","~","=","1",".","4">>
L_lib_ne == <<"l","i","b","!","=","1",".","0">>
L_comment == <<"#"," ","p","i","n">>
L_indented_comment == <<" "," ","#"," ","p","i","n">>
L_blank == <<>>
L_spaces == <<" "," ">>
L_plain == <<"p","y","t","z">>

ReqLines ==
    { L_flask_eq, L_requests_ge, L_six_le, L_numpy_lt, L_tox_gt, L_pkg_compat,
      L_lib_ne, L_comment, L_indented_comment, L_blank, L_spaces, L_plain }

\* the texts of 1..n lines drawn from ReqLines, joined by "\n"
ReqTexts(n) ==
    { join(ls, <<"\n">>) : ls \in UNION { [1..k -> ReqLines] : k \in 1..n } }

(***************************************************************************)
(* Specification of the requirements extraction: a file state is drawn,    *)
(* then analyzeRequirementsTxt runs once on an empty packageDeps.          *)
(***************************************************************************)
InitRequirements ==
    /\ reqFile \in [listed : BOOLEAN, ok : BOOLEAN, text : ReqTexts(MaxReqLines)]
    /\ reqDeps = <<>>
    /\ reqPc = "start"
    /\ IdleClassify
    /\ IdleMetrics
    /\ IdleAnalyze
    /\ IdleTools

AnalyzeRequirementsTxt ==
    /\ reqPc = "start"
    /\ reqDeps' = analyzeRequirementsTxt(reqFile, reqDeps)
    /\ reqPc' = "done"
    /\ UNCHANGED reqFile
    /\ UNCHANGED <<varsClassify, varsMetrics, varsAnalyze, varsTools>>

NextRequirements == AnalyzeRequirementsTxt

SpecRequirements == InitRequirements /\ [][NextRequirements]_vars

(***************************************************************************)
(* C8.  In a requirements file every blank line and every comment line     *)
(* contributes no dependency, and every other line name<op>rest, <op> one  *)
(* of ==, >=, <=, ~=, !=, <, >, contributes exactly name: the text left of *)
(* the line's first version-constraint operator, trimmed.                  *)
(***************************************************************************)
TwoCharOperators == { <<"=","=">>, <<">","=">>, <<"<","=">>, <<"~","=">>, <<"!","=">> }

\* a version-constraint operator starts at position i of the line
OperatorAt(line, i) ==
    \/ line[i] \in {"<", ">"}
    \/ i < Len(line) /\ SubSeq(line, i, i + 1) \in TwoCharOperators

HasOperator(line) == \E i \in 1..Len(line) : OperatorAt(line, i)

\* the text left of the line's first version-constraint operator, trimmed
NameOf(line) ==
    LET i == CHOOSE k \in 1..Len(line) :
                 OperatorAt(line, k) /\ \A j \in 1..(k - 1) : ~OperatorAt(line, j)
    IN  trim(SubSeq(line, 1, i - 1))

IsBlankLine(line) == trim(line) = <<>>
\* a comment line in the narrow sense: "#" is its first character
IsCommentLine(line) == startsWith(line, <<"#">>)

\* what the claim has one line contribute; a line without an operator is
\* outside the claim and contributes what the code makes of it
Contribution(line) ==
    IF IsBlankLine(line) \/ IsCommentLine(line) THEN <<>>
    ELSE IF HasOperator(line) THEN <<NameOf(line)>>
    ELSE <<trim(line)>>

RECURSIVE Contributions(_)
Contributions(lines) ==
    IF Len(lines) = 0 THEN <<>> ELSE Contribution(lines[1]) \o Contributions(Tail(lines))

C8_NameLeftOfOperator ==
    (reqPc = "done" /\ reqFile.listed /\ reqFile.ok) =>
        reqDeps = Contributions(splitLines(reqFile.text))

(***************************************************************************)
(* Metrics Calculator: calculateMetrics.                                   *)
(***************************************************************************)
\* size % k in place of Math.ceil(size / k)
modDiv(size, k) == size % k

\* Math.ceil(size / k) for a size >= 0 and a divisor k > 0
ceilDiv(size, k) == (size + k - 1) \div k

\* the complexity of one file from its extension and its byte size
fileComplexity(ext, size) ==
    IF ext \in {E_py, E_js, E_ts, E_rs, E_go} THEN ceilDiv(size, 500)
    ELSE IF ext \in {E_c, E_cpp, E_cc, E_cxx} THEN ceilDiv(size, 300)
    ELSE ceilDiv(size, 1000)

\* a task whose catch branch still reports the file as one unit of complexity
metricTaskCountsFailure(file) ==
    IF file.statOk
    THEN [size |-> file.size, complexity |-> fileComplexity(extname(file.path), file.size)]
    ELSE [size |-> 0, complexity |-> 1]

\* what one metric task resolves to: the stat'ed size and the complexity,
\* or zeros when stat throws
metricTask(file) ==
    IF file.statOk
    THEN [size |-> file.size, complexity |-> fileComplexity(extname(file.path), file.size)]
    ELSE [size |-> 0, complexity |-> 0]

\* the for-loop over the results of Promise.all, from result i on
RECURSIVE sumResults(_, _, _, _)
sumResults(results, i, totalSize, complexity) ==
    IF i > Len(results) THEN [totalSize |-> totalSize, complexity |-> complexity]
    ELSE sumResults(results, i + 1, totalSize + results[i].size,
                    complexity + results[i].complexity)

\* the record calculateMetrics returns once every task has resolved
metricsOf(files, results) ==
    LET sums == sumResults(results, 1, 0, 0)
    IN  [fileCount |-> Len(files), totalSize |-> sums.totalSize, complexity |-> sums.complexity]

Pending == [settled |-> FALSE, size |-> 0, complexity |-> 0]

(***************************************************************************)
(* Specification of the metrics calculation: a listing with sizes and stat *)
(* outcomes is drawn; calculateMetrics issues one task per file, the tasks *)
(* resolve in any order, and the results are summed.  Afterwards one file  *)
(* may grow, once, and calculateMetrics runs again.                        *)
(***************************************************************************)
MetricPaths == { P_main_rs, P_index_ts, P_Guardian_c, P_notes_txt }
InitialSizes == { 0, 300, 999 }
Growths == { 1, 501 }

InitMetrics ==
    /\ \E paths \in Listings(MetricPaths, MaxMetricFiles) :
          metFiles \in { listing \in [1..Len(paths) -> [path : MetricPaths, size : InitialSizes,
                                                   statOk : BOOLEAN]] :
                            \A i \in 1..Len(paths) : listing[i].path = paths[i] }
    /\ metResults = <<>>
    /\ metPc = "start"
    /\ metOut = NoMetrics
    /\ metPrev = [valid |-> FALSE, metrics |-> NoMetrics]
    /\ IdleClassify
    /\ IdleRequirements
    /\ IdleAnalyze
    /\ IdleTools

\* files.map(file => this.limit(...)): one task per file
CalculateMetricsStart ==
    /\ metPc = "start"
    /\ metResults' = [i \in 1..Len(metFiles) |-> Pending]
    /\ metPc' = "tasks"
    /\ UNCHANGED <<metFiles, metOut, metPrev>>
    /\ UNCHANGED <<varsClassify, varsRequirements, varsAnalyze, varsTools>>

\* the task of file i resolves
MetricTaskSettles(i) ==
    /\ metPc = "tasks"
    /\ ~metResults[i].settled
    /\ metResults' = [metResults EXCEPT ![i] =
                         [settled |-> TRUE, size |-> metricTask(metFiles[i]).size,
                          complexity |-> metricTask(metFiles[i]).complexity]]
    /\ UNCHANGED <<metFiles, metPc, metOut, metPrev>>
    /\ UNCHANGED <<varsClassify, varsRequirements, varsAnalyze, varsTools>>

\* Promise.all resolves; the loop sums the results
CalculateMetricsFinish ==
    /\ metPc = "tasks"
    /\ \A i \in 1..Len(metResults) : metResults[i].settled
    /\ metOut' = metricsOf(metFiles, metResults)
    /\ metPc' = "done"
    /\ UNCHANGED <<metFiles, metResults, metPrev>>
    /\ UNCHANGED <<varsClassify, varsRequirements, varsAnalyze, varsTools>>

\* file i grows by d bytes and nothing else changes; metrics are taken again
Grow(i, d) ==
    /\ metPc = "done"
    /\ ~metPrev.valid
    /\ metFiles' = [metFiles EXCEPT ![i].size = @ + d]
    /\ metPrev' = [valid |-> TRUE, metrics |-> metOut]
    /\ metPc' = "start"
    /\ UNCHANGED <<metResults, metOut>>
    /\ UNCHANGED <<varsClassify, varsRequirements, varsAnalyze, varsTools>>

NextMetrics ==
    \/ CalculateMetricsStart
    \/ \E i \in 1..Len(metFiles) : MetricTaskSettles(i)
    \/ CalculateMetricsFinish
    \/ \E i \in 1..Len(metFiles), d \in Growths : Grow(i, d)

SpecMetrics == InitMetrics /\ [][NextMetrics]_vars

(***************************************************************************)
(* C9.  calculateMetrics returns fileCount = the length of the listing     *)
(* (files whose stat fails included), totalSize = the sum of the sizes of  *)
(* the files whose stat succeeds, complexity = the sum of those files'     *)
(* contributions; a file whose stat fails adds 0 to both.                  *)
(***************************************************************************)
\* the divisor of the claim's extension tiers
Divisor(path) ==
    IF \E e \in {E_py, E_js, E_ts, E_rs, E_go} : endsWith(path, e) THEN 500
    ELSE IF \E e \in {E_c, E_cpp, E_cc, E_cxx} : endsWith(path, e) THEN 300
    ELSE 1000

\* ceil(size / k): the least n with n * k >= size
Ceil(size, k) == CHOOSE n \in 0..size : n * k >= size /\ \A m \in 0..(n - 1) : m * k < size

\* the sum of f[i] over the finite index set I
RECURSIVE SumOver(_, _)
SumOver(I, f) ==
    IF I = {} THEN 0
    ELSE LET i == CHOOSE x \in I : TRUE IN f[i] + SumOver(I \ {i}, f)

StatOk(files) == { i \in 1..Len(files) : files[i].statOk }

C9_MetricsSums ==
    metPc = "done" =>
        /\ metOut.fileCount = Len(metFiles)
        /\ metOut.totalSize =
              SumOver(StatOk(metFiles), [i \in 1..Len(metFiles) |-> metFiles[i].size])
        /\ metOut.complexity =
              SumOver(StatOk(metFiles),
                      [i \in 1..Len(metFiles) |->
                          Ceil(metFiles[i].size, Divisor(metFiles[i].path))])

\* metrics were returned for a listing with a file whose stat failed and a
\* file of positive size whose stat succeeded
C9_Witness ==
    /\ metPc = "done"
    /\ Len(metFiles) = 2
    /\ \E i, j \in 1..Len(metFiles) :
          /\ ~metFiles[i].statOk /\ metFiles[i].size > 0
          /\ metFiles[j].statOk /\ metFiles[j].size > 0
    /\ metOut.fileCount = 2
    /\ metOut.totalSize > 0

(***************************************************************************)
(* C10.  Of two files of one extension tier the larger has a contribution  *)
(* ceil(size/K) at least that of the smaller, so metrics.complexity never  *)
(* decreases when one file grows and nothing else changes.                 *)
(***************************************************************************)
C10_ComplexityMonotone ==
    /\ metPc \in {"tasks", "done"} =>
          \A i, j \in 1..Len(metResults) :
              ( /\ metResults[i].settled /\ metResults[j].settled
                /\ metFiles[i].statOk /\ metFiles[j].statOk
                /\ Divisor(metFiles[i].path) = Divisor(metFiles[j].path)
                /\ metFiles[i].size <= metFiles[j].size )
              => /\ metResults[i].complexity <= metResults[j].complexity
                 /\ metResults[i].complexity = Ceil(metFiles[i].size, Divisor(metFiles[i].path))
    /\ (metPc = "done" /\ metPrev.valid) => metOut.complexity >= metPrev.metrics.complexity

\* a file grew across a multiple of its divisor, next to a smaller file of
\* the same tier, and the complexity rose
C10_Witness ==
    /\ metPc = "done"
    /\ metPrev.valid
    /\ metOut.complexity > metPrev.metrics.complexity
    /\ \E i, j \in 1..Len(metFiles) :
          /\ i # j
          /\ metFiles[i].statOk /\ metFiles[j].statOk
          /\ Divisor(metFiles[i].path) = Divisor(metFiles[j].path)
          /\ metFiles[i].size < metFiles[j].size

(***************************************************************************)
(* Further string literals of the analyzer.                                *)
(***************************************************************************)
K_endpoint == <<"e","n","d","p","o","i","n","t">>
K_spec == <<"s","p","e","c">>
K_docker == <<"d","o","c","k","e","r">>
K_readme == <<"r","e","a","d","m","e">>
K_doc == <<"d","o","c">>
K_async_def == <<"a","s","y","n","c"," ","d","e","f">>
K_asyncio == <<"a","s","y","n","c","i","o">>
K_async_ == <<"a","s","y","n","c"," ">>
K_flask == <<"f","l","a","s","k">>
K_fastapi == <<"f","a","s","t","a","p","i">>
K_express == <<"e","x","p","r","e","s","s">>
K_pytest == <<"p","y","t","e","s","t">>
K_jest == <<"j","e","s","t">>
K_mocha == <<"m","o","c","h","a">>
K_test_ == <<"t","e","s","t","_">>
K_selenium == <<"s","e","l","e","n","i","u","m">>
K_postgres == <<"p","o","s","t","g","r","e","s">>
K_dependencies_header == <<"[","d","e","p","e","n","d","e","n","c","i","e","s","]">>
K_require == <<"r","e","q","u","i","r","e">>
K_slashes == <<"/","/">>

E_yml == <<".","y","m","l">>
E_yaml == <<".","y","a","m","l">>
E_json == <<".","j","s","o","n">>
E_toml == <<".","t","o","m","l">>
E_conf == <<".","c","o","n","f">>
E_ini == <<".","i","n","i">>
E_env == <<".","e","n","v">>
E_md == <<".","m","d">>
E_rst == <<".","r","s","t">>
E_txt == <<".","t","x","t">>
E_adoc == <<".","a","d","o","c">>
E_socket == <<".","s","o","c","k","e","t">>

P_package_json == <<"p","a","c","k","a","g","e",".","j","s","o","n">>
P_Cargo_toml == <<"C","a","r","g","o",".","t","o","m","l">>
P_requirements_txt == <<"r","e","q","u","i","r","e","m","e","n","t","s",".","t","x","t">>
P_go_mod == <<"g","o",".","m","o","d">>

(***************************************************************************)
(* Classifier: extractFeatures.                                            *)
(***************************************************************************)
\* a pattern that is an alternation of literals and of literals anchored
\* at the end, /a|b|\.x$/ : some literal occurs in s, or s ends in a suffix
patternTest(pat, s) ==
    \/ \E k \in pat.anywhere : includes(s, k)
    \/ \E e \in pat.atEnd : endsWith(s, e)

featureMap ==
    << [pattern |-> [anywhere |-> {K_api, K_server, K_endpoint}, atEnd |-> {}],
        feature |-> "REST API"],
       [pattern |-> [anywhere |-> {K_test, K_spec}, atEnd |-> {}],
        feature |-> "Testing Framework"],
       [pattern |-> [anywhere |-> {K_docker}, atEnd |-> {}],
        feature |-> "Containerization"],
       [pattern |-> [anywhere |-> {}, atEnd |-> {E_service}],
        feature |-> "SystemD Services"],
       [pattern |-> [anywhere |-> {}, atEnd |-> {E_yml, E_yaml}],
        feature |-> "Configuration Management"],
       [pattern |-> [anywhere |-> {K_readme, K_doc}, atEnd |-> {}],
        feature |-> "Documentation"] >>

\* Array.prototype.filter
filterSeq(s, keep(_)) == SelectSeq(s, keep)

\* the for-loop over featureMap from entry i on: the file-based features
RECURSIVE fileFeatures(_, _, _)
fileFeatures(files, i, features) ==
    IF i > Len(featureMap) THEN features
    ELSE IF \E n \in 1..Len(files) : patternTest(featureMap[i].pattern, toLowerCase(files[n]))
         THEN fileFeatures(files, i + 1, Append(features, featureMap[i].feature))
         ELSE fileFeatures(files, i + 1, features)

isCodeFile(f) == endsWith(f, E_py) \/ endsWith(f, E_js) \/ endsWith(f, E_ts)

\* files.filter(...) without the slice: every code file
codeFilesUnlimited(files) == filterSeq(files, isCodeFile)

\* files.filter(...).slice(0, 10): the files read for content
codeFilesOf(files) ==
    LET code == filterSeq(files, isCodeFile)
    IN  SubSeq(code, 1, IF Len(code) < 10 THEN Len(code) ELSE 10)

\* the content features of one file's text
contentFeaturesOf(content) ==
    (IF includes(content, K_async_def) \/ includes(content, K_asyncio)
           \/ includes(content, K_async_)
     THEN <<"Async Programming">> ELSE <<>>)
    \o (IF includes(content, K_flask) \/ includes(content, K_fastapi)
              \/ includes(content, K_express)
        THEN <<"Web Framework">> ELSE <<>>)
    \o (IF includes(content, K_pytest) \/ includes(content, K_jest)
              \/ includes(content, K_mocha)
        THEN <<"Testing Framework">> ELSE <<>>)

\* a content task without its catch: a failed read rejects the task
contentTaskWithoutCatch(read) ==
    IF read.ok THEN [threw |-> FALSE, value |-> contentFeaturesOf(read.text)]
    ELSE [threw |-> TRUE, value |-> <<>>]

\* what one content task resolves to; read is [ok, text], the outcome of readFile
contentTask(read) ==
    IF read.ok THEN [threw |-> FALSE, value |-> contentFeaturesOf(read.text)]
    ELSE [threw |-> FALSE, value |-> <<>>]

\* Array.prototype.flat over settled task values
RECURSIVE flat(_)
flat(results) == IF Len(results) = 0 THEN <<>> ELSE results[1] \o flat(Tail(results))

\* [...new Set(xs)]: the distinct elements in order of first occurrence
RECURSIVE dedupFrom(_, _, _)
dedupFrom(xs, i, acc) ==
    IF i > Len(xs) THEN acc ELSE dedupFrom(xs, i + 1, setAdd(acc, xs[i]))

dedup(xs) == dedupFrom(xs, 1, <<>>)

(***************************************************************************)
(* Classifier: categorizeFiles.                                            *)
(***************************************************************************)
endsWithAny(f, exts) == \E e \in exts : endsWith(f, e)

isScript(f) == endsWithAny(f, {E_py, E_sh, E_rs, E_js, E_ts, E_go, E_c, E_cpp})
isConfig(f) ==
    \/ endsWithAny(f, {E_json, E_yaml, E_yml, E_toml, E_conf, E_ini, E_env})
    \/ basename(f) \in {P_package_json, P_Cargo_toml, P_requirements_txt, P_go_mod}
isDoc(f) == endsWithAny(toLowerCase(f), {E_md, E_rst, E_txt, E_adoc})
isService(f) == endsWithAny(f, {E_service, E_timer, E_socket})
isTest(f) ==
    \/ includes(toLowerCase(f), K_test) \/ includes(toLowerCase(f), K_spec)
    \/ startsWith(f, K_test_)

\* categorizeFiles with only the first two files listed taken into account
categorizeFirstTwo(files) ==
    LET n == IF Len(files) < 2 THEN Len(files) ELSE 2
        firstTwo == SubSeq(files, 1, n)
    IN  [ scripts  |-> filterSeq(firstTwo, isScript),
          configs  |-> filterSeq(firstTwo, isConfig),
          docs     |-> filterSeq(firstTwo, isDoc),
          services |-> filterSeq(firstTwo, isService),
          tests    |-> filterSeq(firstTwo, isTest) ]

categorizeFiles(files) ==
    [ scripts  |-> filterSeq(files, isScript),
      configs  |-> filterSeq(files, isConfig),
      docs     |-> filterSeq(files, isDoc),
      services |-> filterSeq(files, isService),
      tests    |-> filterSeq(files, isTest) ]

(***************************************************************************)
(* Dependency Extractor: the manifests other than requirements.txt.        *)
(***************************************************************************)
\* the packageDeps array after analyzePackageJson.  read is the outcome of
\* readFile and JSON.parse: ok (the read succeeded) and json, the parsed
\* text: kind "invalid" (JSON.parse throws), "null" (pkg.dependencies
\* throws) or "object" with its dependencies and devDependencies keys
analyzePackageJson(listed, read, packageDeps) ==
    IF ~listed THEN packageDeps
    ELSE IF ~read.ok \/ read.json.kind # "object" THEN packageDeps
    ELSE packageDeps
         \o (IF read.json.dependencies.present THEN read.json.dependencies.keys ELSE <<>>)
         \o (IF read.json.devDependencies.present THEN read.json.devDependencies.keys ELSE <<>>)

\* String.prototype.indexOf, 1-based, 0 when sub does not occur
indexOf(s, sub) ==
    IF includes(s, sub)
    THEN CHOOSE i \in 1..(Len(s) - Len(sub) + 1) :
             /\ SubSeq(s, i, i + Len(sub) - 1) = sub
             /\ \A j \in 1..(i - 1) : SubSeq(s, j, j + Len(sub) - 1) # sub
    ELSE 0

Digits == {"0","1","2","3","4","5","6","7","8","9"}
\* the characters \w matches
WordChars == Range(LowerChars) \cup Range(UpperChars) \cup Digits \cup {"_"}

\* the length of the longest run of characters of cs that starts at position p
RECURSIVE runLength(_, _, _)
runLength(s, p, cs) ==
    IF p <= Len(s) /\ s[p] \in cs THEN 1 + runLength(s, p + 1, cs) ELSE 0

\* /^(\w+)\s*=/gm on the section, from position p on, then
\* .map(m => m.split('=')[0].trim()): the names matched at line starts
RECURSIVE cargoNames(_, _)
cargoNames(section, p) ==
    IF p > Len(section) THEN <<>>
    ELSE LET atLineStart == p = 1 \/ section[p - 1] = "\n"
             w == runLength(section, p, WordChars)
             q == p + w + runLength(section, p + w, Whitespace)
         IN  IF atLineStart /\ w >= 1 /\ q <= Len(section) /\ section[q] = "="
             THEN <<trim(SubSeq(section, p, q - 1))>> \o cargoNames(section, q + 1)
             ELSE cargoNames(section, p + 1)

\* content.match(/\[dependencies\]([\s\S]*?)(?=\[|$)/)?.[1]: the text from
\* the header to the next "[" or to the end; <<>> also when there is no header
cargoSection(content) ==
    LET h == indexOf(content, K_dependencies_header)
        rest == SubSeq(content, h + Len(K_dependencies_header), Len(content))
        b == firstIndexIn(rest, {"["})
    IN  IF h = 0 THEN <<>>
        ELSE IF b = 0 THEN rest ELSE SubSeq(rest, 1, b - 1)

\* the packageDeps array after analyzeCargoToml
analyzeCargoToml(listed, read, packageDeps) ==
    IF ~listed THEN packageDeps
    ELSE IF ~read.ok THEN packageDeps
    ELSE IF cargoSection(read.text) = <<>> THEN packageDeps
    ELSE packageDeps \o cargoNames(cargoSection(read.text), 1)

\* /require\s+\(/ matches at position i of the content; the position after "("
requireBlockStart(content, i) ==
    LET w == runLength(content, i + Len(K_require), Whitespace)
        q == i + Len(K_require) + w
    IN  IF /\ i + Len(K_require) - 1 <= Len(content)
           /\ SubSeq(content, i, i + Len(K_require) - 1) = K_require
           /\ w >= 1 /\ q <= Len(content) /\ content[q] = "("
        THEN q + 1 ELSE 0

\* content.match(/require\s+\(([\s\S]*?)\)/)?.[1]: the text between the first
\* "require (" and the next ")"; <<>> also when there is no such block
goModBlock(content) ==
    LET starts == { i \in 1..Len(content) :
                      /\ requireBlockStart(content, i) # 0
                      /\ \E j \in requireBlockStart(content, i)..Len(content) : content[j] = ")" }
    IN  IF starts = {} THEN <<>>
        ELSE LET i == CHOOSE x \in starts : \A y \in starts : x <= y
                 b == requireBlockStart(content, i)
                 rest == SubSeq(content, b, Len(content))
             IN  SubSeq(rest, 1, firstIndexIn(rest, {")"}) - 1)

\* line.trim().split(' ')[0]
firstToken(line) ==
    LET tl == trim(line)
        sp == firstIndexIn(tl, {" "})
    IN  IF sp = 0 THEN tl ELSE SubSeq(tl, 1, sp - 1)

keepDep(dep) == dep # <<>> /\ ~startsWith(dep, K_slashes)

\* deps.split('\n').map(...).filter(...)
RECURSIVE goModNames(_)
goModNames(lines) ==
    IF Len(lines) = 0 THEN <<>>
    ELSE IF keepDep(firstToken(lines[1]))
         THEN <<firstToken(lines[1])>> \o goModNames(Tail(lines))
         ELSE goModNames(Tail(lines))

\* the packageDeps array after analyzeGoMod
analyzeGoMod(listed, read, packageDeps) ==
    IF ~listed THEN packageDeps
    ELSE IF ~read.ok THEN packageDeps
    ELSE IF goModBlock(read.text) = <<>> THEN packageDeps
    ELSE packageDeps \o goModNames(splitLines(goModBlock(read.text)))

\* the inferred system dependencies, were the selenium rule to add only
\* chromium
systemDepsWithoutDriver(files, packageDeps) ==
    (IF \E i \in 1..Len(files) : endsWith(files[i], E_service) THEN <<"systemd">> ELSE <<>>)
    \o (IF \E i \in 1..Len(packageDeps) : includes(packageDeps[i], K_selenium)
        THEN <<"chromium">> ELSE <<>>)
    \o (IF \E i \in 1..Len(packageDeps) : includes(packageDeps[i], K_postgres)
        THEN <<"postgresql">> ELSE <<>>)

\* the inferred system dependencies, after all four manifests
systemDepsOf(files, packageDeps) ==
    (IF \E i \in 1..Len(files) : endsWith(files[i], E_service) THEN <<"systemd">> ELSE <<>>)
    \o (IF \E i \in 1..Len(packageDeps) : includes(packageDeps[i], K_selenium)
        THEN <<"chromium", "chromedriver">> ELSE <<>>)
    \o (IF \E i \in 1..Len(packageDeps) : includes(packageDeps[i], K_postgres)
        THEN <<"postgresql">> ELSE <<>>)

\* the record analyzeDependencies returns
dependenciesOf(files, packageDeps) ==
    [package |-> dedup(packageDeps), system |-> dedup(systemDepsOf(files, packageDeps))]

(***************************************************************************)
(* The source folder.  Its state is what the analyzer's filesystem calls   *)
(* observe: the kind of the source path, the top-level modification time   *)
(* and size that stat reports, the regular files under it, and for each    *)
(* file whether it can be stat'ed and read.                                *)
(***************************************************************************)
T_server_py == <<"i","m","p","o","r","t"," ","f","l","a","s","k","\n","a","s","y","n","c"," ","d","e","f"," ","r","u","n","(",")",":">>
T_db_js == <<"r","e","q","u","i","r","e","(","'","e","x","p","r","e","s","s","'",")">>
T_requirements == <<"f","l","a","s","k","=","=","2",".","0","\n","s","e","l","e","n","i","u","m",">","=","4">>
T_cargo == <<"[","d","e","p","e","n","d","e","n","c","i","e","s","]","\n","s","e","r","d","e"," ","="," ","\"","1","\"","\n","[","d","e","v","]">>
T_gomod == <<"r","e","q","u","i","r","e"," ","(","\n","\t","p","o","s","t","g","r","e","s","/","p","q"," ","v","1","\n","/","/"," ","c","\n",")">>
T_main_rs == <<"f","n"," ","m","a","i","n","(",")"," ","{","}">>
P_api_db_js == <<"a","p","i","/","d","b",".","j","s">>
N_express == <<"e","x","p","r","e","s","s">>
N_jest == <<"j","e","s","t">>

TreeA  == { P_api_server_py, P_requirements_txt }
TreeA2 == { P_api_server_py, P_api_db_js, P_requirements_txt }
TreeB  == { P_api_server_py, P_requirements_txt, P_package_json }
TreeC  == { P_main_rs, P_Cargo_toml, P_go_mod }
Trees  == { TreeA, TreeA2, TreeB, TreeC }
AllPaths == UNION Trees

\* the changes made to a folder: a file is added below the top level, added
\* at the top level, or removed again
Edits == { <<TreeA, TreeA2>>, <<TreeA, TreeB>>, <<TreeA2, TreeA>>, <<TreeB, TreeA>> }

\* "ok"; "unreadable": stat succeeds, readFile throws; "gone": stat and
\* readFile throw; "corrupt" (package.json): read succeeds, JSON.parse throws
ConditionsOf(path) ==
    IF path = P_package_json THEN {"ok", "unreadable", "gone", "corrupt"}
    ELSE {"ok", "unreadable", "gone"}

SizeOf(path) ==
    CASE path = P_api_server_py -> 1200
      [] path = P_api_db_js -> 501
      [] path = P_requirements_txt -> 22
      [] path = P_package_json -> 1000
      [] path = P_main_rs -> 12
      [] path = P_Cargo_toml -> 31
      [] OTHER -> 0

TextOf(path) ==
    CASE path = P_api_server_py -> T_server_py
      [] path = P_api_db_js -> T_db_js
      [] path = P_requirements_txt -> T_requirements
      [] path = P_Cargo_toml -> T_cargo
      [] path = P_go_mod -> T_gomod
      [] path = P_main_rs -> T_main_rs
      [] OTHER -> <<>>

\* the parsed package.json of the folder
PackageJson ==
    [ kind |-> "object",
      dependencies |-> [present |-> TRUE, keys |-> <<N_express>>],
      devDependencies |-> [present |-> TRUE, keys |-> <<N_jest, N_express>>] ]

\* the first segment of a relative path: the top-level entry it lies in
topLevelOf(path) ==
    LET n == firstIndexIn(path, {"/"})
    IN  IF n = 0 THEN path ELSE SubSeq(path, 1, n - 1)

\* fs/promises stat(sourcePath).catch(() => null)
statSource(folder) ==
    IF folder.kind = "missing" THEN [ok |-> FALSE, mtime |-> 0, size |-> 0]
    ELSE [ok |-> TRUE, mtime |-> folder.mtime, size |-> folder.size]

\* fs/promises stat(join(sourcePath, file))
statFile(folder, path) ==
    [ path |-> path,
      statOk |-> folder.kind = "dir" /\ path \in folder.tree /\ folder.cond[path] # "gone",
      size |-> SizeOf(path) ]

\* fs/promises readFile(join(sourcePath, file), 'utf-8'), and for
\* package.json what JSON.parse makes of the text
readFile(folder, path) ==
    [ ok |-> folder.kind = "dir" /\ path \in folder.tree
                /\ folder.cond[path] \in {"ok", "corrupt"},
      text |-> TextOf(path),
      json |-> IF folder.kind = "dir" /\ path \in folder.tree /\ folder.cond[path] = "corrupt"
               THEN [PackageJson EXCEPT !.kind = "invalid"] ELSE PackageJson ]

\* the orders in which a scan may list the files of a tree
Orderings(S) ==
    { l \in [1..Cardinality(S) -> S] : \A i, j \in 1..Cardinality(S) : i # j => l[i] # l[j] }

\* the listings a scan of the folder may produce
listingsOf(folder) == Orderings(IF folder.kind = "dir" THEN folder.tree ELSE {})

AllListings == UNION { Orderings(tree) : tree \in Trees \cup {{}} }

\* fast-glob('**/*', {cwd: sourcePath, onlyFiles: true}): the files in some
\* order for a directory; no file for a path that does not exist (fast-glob
\* suppresses ENOENT); an error (ENOTDIR) for a path that is not a directory
scanFiles(folder, order) ==
    IF folder.kind = "file" THEN [threw |-> TRUE, files |-> <<>>]
    ELSE IF folder.kind = "missing" THEN [threw |-> FALSE, files |-> <<>>]
    ELSE [threw |-> FALSE, files |-> order]

(***************************************************************************)
(* Content Cache (src/src/utils/cache.ts).                                 *)
(***************************************************************************)
maxAge == 3600000

\* a key with the modification time left out
getCacheKeyWithoutMtime(path, mtime, size) == <<path, 0, size>>

\* getCacheKey: the SHA-256 of JSON.stringify({path, mtime, size}), modelled
\* as the hashed triple itself (distinct inputs give distinct keys)
getCacheKey(path, mtime, size) == <<path, mtime, size>>

\* JSON.stringify(analysis): the members in insertion order
jsonStringify(a) ==
    << <<"type", a.type>>, <<"languages", a.languages>>, <<"features", a.features>>,
       <<"files", a.files>>, <<"dependencies", a.dependencies>>, <<"metrics", a.metrics>> >>

\* the value of member name in a stringified object
member(text, name) == text[CHOOSE i \in 1..Len(text) : text[i][1] = name][2]

\* JSON.parse(content)
jsonParse(text) ==
    [ type |-> member(text, "type"), languages |-> member(text, "languages"),
      features |-> member(text, "features"), files |-> member(text, "files"),
      dependencies |-> member(text, "dependencies"), metrics |-> member(text, "metrics") ]

NoAnalysis ==
    [ type |-> Unset, languages |-> <<>>, features |-> <<>>,
      files |-> [scripts |-> <<>>, configs |-> <<>>, docs |-> <<>>, services |-> <<>>,
                 tests |-> <<>>],
      dependencies |-> [package |-> <<>>, system |-> <<>>],
      metrics |-> NoMetrics ]

\* Cache.get whose catch answers with an empty object instead of null
cacheGetCatchReturnsObject(store, key, time, ioOk) ==
    IF ~ioOk THEN [found |-> TRUE, value |-> NoAnalysis]
    ELSE IF key \notin DOMAIN store THEN [found |-> FALSE, value |-> NoAnalysis]
    ELSE IF time - store[key].mtime > maxAge THEN [found |-> FALSE, value |-> NoAnalysis]
    ELSE [found |-> TRUE, value |-> jsonParse(store[key].content)]

\* Cache.get without the age test
cacheGetNeverExpires(store, key, time, ioOk) ==
    IF ~ioOk THEN [found |-> FALSE, value |-> NoAnalysis]
    ELSE IF key \notin DOMAIN store THEN [found |-> FALSE, value |-> NoAnalysis]
    ELSE [found |-> TRUE, value |-> jsonParse(store[key].content)]

\* Cache.get with an entry expired as soon as its age reaches maxAge
cacheGetExpiresAtMaxAge(store, key, time, ioOk) ==
    IF ~ioOk THEN [found |-> FALSE, value |-> NoAnalysis]
    ELSE IF key \notin DOMAIN store THEN [found |-> FALSE, value |-> NoAnalysis]
    ELSE IF time - store[key].mtime >= maxAge THEN [found |-> FALSE, value |-> NoAnalysis]
    ELSE [found |-> TRUE, value |-> jsonParse(store[key].content)]

\* Cache.get(key): null (found = FALSE) when a cache operation throws, when
\* the entry file does not exist, or when it is older than maxAge
cacheGet(store, key, time, ioOk) ==
    IF ~ioOk THEN [found |-> FALSE, value |-> NoAnalysis]
    ELSE IF key \notin DOMAIN store THEN [found |-> FALSE, value |-> NoAnalysis]
    ELSE IF time - store[key].mtime > maxAge THEN [found |-> FALSE, value |-> NoAnalysis]
    ELSE [found |-> TRUE, value |-> jsonParse(store[key].content)]

\* Cache.set(key, data): the entry file is written, or nothing when a cache
\* operation throws
cacheSet(store, key, data, time, ioOk) ==
    IF ~ioOk THEN store
    ELSE (key :> [content |-> jsonStringify(data), mtime |-> time]) @@ store

(***************************************************************************)
(* Analysis Orchestrator: ProjectAnalyzer.analyze.                         *)
(*                                                                         *)
(* One analyze() call is a sequence of steps separated by its awaits: the  *)
(* stat and the read of the cache lookup, the scan, the content reads, the *)
(* manifest reads, the stat calls, the stat and the write of the cache     *)
(* store.  The source folder, the clock and the cache directory may change *)
(* between any two steps.  Calls are made one after another.               *)
(***************************************************************************)
sourcePath == "project"
concurrency == 10    \* pLimit(10)

Manifests == {"package.json", "requirements.txt", "Cargo.toml", "go.mod"}

manifestPath(m) ==
    CASE m = "package.json" -> P_package_json
      [] m = "requirements.txt" -> P_requirements_txt
      [] m = "Cargo.toml" -> P_Cargo_toml
      [] m = "go.mod" -> P_go_mod

\* files.includes(name)
listed(files, path) == \E i \in 1..Len(files) : files[i] = path

NoKey == <<"", 0, 0>>

\* a call that has not been made: its locals and, last, what the model
\* records about it for the properties
NewCall ==
    [ pc |-> "idle",
      key |-> NoKey, files |-> <<>>, languages |-> <<>>, type |-> Unset,
      features |-> <<>>, contentTasks |-> <<>>,
      packageDeps |-> <<>>, depTasks |-> [m \in Manifests |-> "done"],
      dependencies |-> [package |-> <<>>, system |-> <<>>],
      metricTasks |-> <<>>, analysis |-> NoAnalysis,
      result |-> [kind |-> "none", value |-> NoAnalysis],
      hit |-> FALSE, ran |-> {},
      verStart |-> 0, verLookup |-> 0, verEnd |-> 0, mtimeLookup |-> 0, mtimeEnd |-> 0,
      lookupFault |-> FALSE, lookupTime |-> 0, clearsAtLookup |-> 0,
      stored |-> FALSE, storeKey |-> NoKey, storeTime |-> 0, clearsAtStore |-> 0 ]

\* the tasks, were they started without this.limit
startTasksUnlimited(n) ==
    [i \in 1..n |-> [status |-> "active", threw |-> FALSE, value |-> <<>>]]

\* the tasks handed to this.limit: the first `concurrency` run, the rest wait
startTasks(n) ==
    [i \in 1..n |-> [status |-> IF i <= concurrency THEN "active" ELSE "queued",
                     threw |-> FALSE, value |-> <<>>]]

\* task i settles with value v; the first waiting task, if any, starts
settleTask(tasks, i, threw, v) ==
    LET queued == { j \in 1..Len(tasks) : tasks[j].status = "queued" }
        next == IF queued = {} THEN 0 ELSE CHOOSE j \in queued : \A k \in queued : j <= k
    IN  [j \in 1..Len(tasks) |->
            IF j = i THEN [status |-> "settled", threw |-> threw, value |-> v]
            ELSE IF j = next THEN [tasks[j] EXCEPT !.status = "active"]
            ELSE tasks[j]]

allSettled(tasks) == \A i \in 1..Len(tasks) : tasks[i].status = "settled"
anyThrew(tasks) == \E i \in 1..Len(tasks) : tasks[i].threw
valuesOf(tasks) == [i \in 1..Len(tasks) |-> tasks[i].value]

\* analyze's catch block: failSpinner, rethrow
rejected(call, folder) ==
    [call EXCEPT !.pc = "done", !.result = [kind |-> "error", value |-> NoAnalysis],
                 !.verEnd = folder.version, !.mtimeEnd = folder.mtime,
                 !.key = NoKey, !.files = <<>>, !.languages = <<>>, !.type = Unset,
                 !.features = <<>>, !.contentTasks = <<>>, !.packageDeps = <<>>,
                 !.dependencies = NewCall.dependencies, !.metricTasks = <<>>,
                 !.analysis = NoAnalysis]

\* analyze returns value
resolved(call, folder, value) ==
    [call EXCEPT !.pc = "done", !.result = [kind |-> "record", value |-> value],
                 !.verEnd = folder.version, !.mtimeEnd = folder.mtime,
                 !.key = NoKey, !.files = <<>>, !.languages = <<>>, !.type = Unset,
                 !.features = <<>>, !.contentTasks = <<>>, !.packageDeps = <<>>,
                 !.dependencies = NewCall.dependencies, !.metricTasks = <<>>,
                 !.analysis = NoAnalysis]

\* after calculateMetrics: the analysis is assembled; next, the cache store
afterMetrics(call) ==
    [call EXCEPT
        !.ran = @ \cup {"metrics"},
        !.analysis = [ type |-> call.type, languages |-> call.languages,
                       features |-> call.features, files |-> categorizeFiles(call.files),
                       dependencies |-> call.dependencies,
                       metrics |-> metricsOf(call.files, valuesOf(call.metricTasks)) ],
        !.pc = "storeStat"]

\* after analyzeDependencies: calculateMetrics issues one task per file
afterDependencies(call) ==
    LET c1 == [call EXCEPT
                  !.ran = @ \cup {"dependencies"},
                  !.dependencies = dependenciesOf(call.files, call.packageDeps),
                  !.metricTasks = startTasks(Len(call.files)),
                  !.pc = "metrics"]
    IN  IF Len(call.files) = 0 THEN afterMetrics(c1) ELSE c1

\* after extractFeatures: analyzeDependencies starts the four manifest
\* tasks; each returns at once when its manifest is not listed and otherwise
\* awaits its readFile
afterFeatures(call) ==
    LET c1 == [call EXCEPT
                  !.ran = @ \cup {"features"},
                  !.features = dedup(call.features \o flat(valuesOf(call.contentTasks))),
                  !.packageDeps = <<>>,
                  !.depTasks = [m \in Manifests |->
                                   IF listed(call.files, manifestPath(m))
                                   THEN "reading" ELSE "done"],
                  !.pc = "dependencies"]
    IN  IF \A m \in Manifests : c1.depTasks[m] = "done" THEN afterDependencies(c1) ELSE c1

\* after scanFiles: detectLanguages, inferProjectType, then extractFeatures
\* up to its await of the content tasks
afterScan(call, files) ==
    LET c1 == [call EXCEPT
                  !.ran = @ \cup {"scan", "languages", "type"},
                  !.files = files,
                  !.languages = detectLanguages(files),
                  !.type = inferProjectType(files),
                  !.features = fileFeatures(files, 1, <<>>),
                  !.contentTasks = startTasks(Len(codeFilesOf(files))),
                  !.pc = "features"]
    IN  IF Len(c1.contentTasks) = 0 THEN afterFeatures(c1) ELSE c1

InitAnalyze ==
    /\ \E kind \in {"dir", "file", "missing"}, tree \in Trees :
          /\ kind # "dir" => tree = TreeA
          /\ \E cond \in [tree -> {"ok", "unreadable", "gone", "corrupt"}] :
                /\ \A q \in tree : cond[q] \in ConditionsOf(q)
                /\ kind # "dir" => \A q \in tree : cond[q] = "ok"
                /\ Cardinality({ q \in tree : cond[q] # "ok" }) <= MaxDisturbances
                /\ fs = [kind |-> kind, mtime |-> 0, size |-> 4096, tree |-> tree,
                         cond |-> cond, version |-> 0]
    /\ cacheFiles = <<>>
    /\ now = 0
    /\ clears = 0
    /\ calls = [c \in 1..MaxCalls |-> NewCall]
    /\ IdleClassify
    /\ IdleRequirements
    /\ IdleMetrics
    /\ IdleTools

Others == <<varsClassify, varsRequirements, varsMetrics, varsTools>>

\* analyze(sourcePath) is called; the calls are made one after another
StartAnalyze(c) ==
    /\ calls[c].pc = "idle"
    /\ \A d \in 1..MaxCalls : calls[d].pc \in {"idle", "done"}
    /\ (c > 1) => (calls[c - 1].pc = "done")
    /\ calls' = [calls EXCEPT ![c] = [NewCall EXCEPT !.pc = "lookupStat",
                                                     !.verStart = fs.version]]
    /\ UNCHANGED <<fs, cacheFiles, now, clears, Others>>

\* getAnalysisCache: stat(sourcePath), then the key
LookupStat(c) ==
    /\ calls[c].pc = "lookupStat"
    /\ LET stats == statSource(fs)
           seen == [calls[c] EXCEPT !.verLookup = fs.version, !.mtimeLookup = fs.mtime]
       IN  calls' = [calls EXCEPT ![c] =
              IF ~stats.ok THEN [seen EXCEPT !.pc = "scan"]
              ELSE [seen EXCEPT !.pc = "lookupGet",
                             !.key = getCacheKey(sourcePath, stats.mtime, stats.size)]]
    /\ UNCHANGED <<fs, cacheFiles, now, clears, Others>>

\* Cache.get; then `if (cached) return cached`
LookupGet(c, ioOk) ==
    /\ calls[c].pc = "lookupGet"
    /\ LET cached == cacheGet(cacheFiles, calls[c].key, now, ioOk)
           seen == [calls[c] EXCEPT !.lookupFault = (~ioOk /\ calls[c].key \in DOMAIN cacheFiles),
                                    !.lookupTime = now,
                                    !.clearsAtLookup = clears]
       IN  calls' = [calls EXCEPT ![c] =
              IF cached.found THEN resolved([seen EXCEPT !.hit = TRUE], fs, cached.value)
              ELSE [seen EXCEPT !.pc = "scan"]]
    /\ UNCHANGED <<fs, cacheFiles, now, clears, Others>>

\* scanFiles and the synchronous code up to the next await
Scan(c, order) ==
    /\ calls[c].pc = "scan"
    /\ order \in listingsOf(fs)
    /\ LET scan == scanFiles(fs, order)
           seen == calls[c]
       IN  calls' = [calls EXCEPT ![c] =
              IF scan.threw THEN rejected(seen, fs) ELSE afterScan(seen, scan.files)]
    /\ UNCHANGED <<fs, cacheFiles, now, clears, Others>>

\* the content task of code file i settles
ContentTaskSettles(c, i) ==
    /\ calls[c].pc = "features"
    /\ i \in 1..Len(calls[c].contentTasks)
    /\ calls[c].contentTasks[i].status = "active"
    /\ LET r == contentTask(readFile(fs, codeFilesOf(calls[c].files)[i]))
           c1 == [calls[c] EXCEPT
                     !.contentTasks = settleTask(@, i, r.threw, r.value)]
       IN  calls' = [calls EXCEPT ![c] =
              IF ~allSettled(c1.contentTasks) THEN c1
              ELSE IF anyThrew(c1.contentTasks) THEN rejected(c1, fs)
              ELSE afterFeatures(c1)]
    /\ UNCHANGED <<fs, cacheFiles, now, clears, Others>>

\* the readFile of manifest m settles and its task pushes onto packageDeps
DepTaskSettles(c, m) ==
    /\ calls[c].pc = "dependencies"
    /\ calls[c].depTasks[m] = "reading"
    /\ LET read == readFile(fs, manifestPath(m))
           deps == calls[c].packageDeps
           pushed == CASE m = "package.json" -> analyzePackageJson(TRUE, read, deps)
                       [] m = "requirements.txt" ->
                            analyzeRequirementsTxt(
                                [listed |-> TRUE, ok |-> read.ok, text |-> read.text], deps)
                       [] m = "Cargo.toml" -> analyzeCargoToml(TRUE, read, deps)
                       [] m = "go.mod" -> analyzeGoMod(TRUE, read, deps)
           c1 == [calls[c] EXCEPT !.packageDeps = pushed, !.depTasks[m] = "done"]
       IN  calls' = [calls EXCEPT ![c] =
              IF \A x \in Manifests : c1.depTasks[x] = "done"
              THEN afterDependencies(c1) ELSE c1]
    /\ UNCHANGED <<fs, cacheFiles, now, clears, Others>>

\* the metric task of file i settles
StatSettles(c, i) ==
    /\ calls[c].pc = "metrics"
    /\ i \in 1..Len(calls[c].metricTasks)
    /\ calls[c].metricTasks[i].status = "active"
    /\ LET r == metricTask(statFile(fs, calls[c].files[i]))
           c1 == [calls[c] EXCEPT !.metricTasks = settleTask(@, i, FALSE, r)]
       IN  calls' = [calls EXCEPT ![c] =
              IF allSettled(c1.metricTasks) THEN afterMetrics(c1) ELSE c1]
    /\ UNCHANGED <<fs, cacheFiles, now, clears, Others>>

\* setAnalysisCache: stat(sourcePath), then the key; without stats nothing
\* is stored and analyze returns the analysis
StoreStat(c) ==
    /\ calls[c].pc = "storeStat"
    /\ LET stats == statSource(fs)
       IN  calls' = [calls EXCEPT ![c] =
              IF ~stats.ok THEN resolved(@, fs, @.analysis)
              ELSE [@ EXCEPT !.pc = "storeWrite",
                             !.storeKey = getCacheKey(sourcePath, stats.mtime, stats.size)]]
    /\ UNCHANGED <<fs, cacheFiles, now, clears, Others>>

\* Cache.set; then analyze returns the analysis
StoreWrite(c, ioOk) ==
    /\ calls[c].pc = "storeWrite"
    /\ cacheFiles' = cacheSet(cacheFiles, calls[c].storeKey, calls[c].analysis, now, ioOk)
    /\ calls' = [calls EXCEPT ![c] =
          resolved([@ EXCEPT !.stored = ioOk, !.storeTime = now,
                             !.clearsAtStore = clears], fs, @.analysis)]
    /\ UNCHANGED <<fs, now, clears, Others>>

\* the source folder changes to another set of files; stat reports a new
\* modification time when a top-level entry was added or removed, and may
\* or may not when the change is below the top level
Modify(tree, bump) ==
    /\ fs.kind = "dir"
    /\ \E c \in 1..MaxCalls : calls[c].pc # "done"
    /\ fs.version + Cardinality({ q \in fs.tree : fs.cond[q] # "ok" }) < MaxDisturbances
    /\ <<fs.tree, tree>> \in Edits
    /\ { topLevelOf(q) : q \in tree } # { topLevelOf(q) : q \in fs.tree } => bump
    /\ fs' = [fs EXCEPT !.tree = tree,
                        !.mtime = IF bump THEN @ + 1 ELSE @,
                        !.version = @ + 1,
                        !.cond = [q \in tree |-> IF q \in fs.tree THEN @[q] ELSE "ok"]]
    /\ UNCHANGED <<cacheFiles, now, clears, calls, Others>>

\* time passes: half of maxAge.  Only the ages a lookup can observe are
\* told apart: time passes before a call reads an entry's age
Tick ==
    /\ \E c \in 1..MaxCalls : calls[c].pc = "lookupGet" /\ calls[c].key \in DOMAIN cacheFiles
    /\ now < MaxTicks * (maxAge \div 2)
    /\ now' = now + (maxAge \div 2)
    /\ UNCHANGED <<fs, cacheFiles, clears, calls, Others>>

\* the cache directory is emptied, before a call reads an entry of it
ClearCache ==
    /\ \E c \in 1..MaxCalls : calls[c].pc = "lookupGet" /\ calls[c].key \in DOMAIN cacheFiles
    /\ clears < MaxClears
    /\ cacheFiles' = <<>>
    /\ clears' = clears + 1
    /\ UNCHANGED <<fs, now, calls, Others>>

Next ==
    \/ \E c \in 1..MaxCalls : StartAnalyze(c)
    \/ \E c \in 1..MaxCalls : LookupStat(c)
    \/ \E c \in 1..MaxCalls, ioOk \in BOOLEAN : LookupGet(c, ioOk)
    \/ \E c \in 1..MaxCalls, order \in AllListings : Scan(c, order)
    \/ \E c \in 1..MaxCalls, i \in 1..Cardinality(AllPaths) : ContentTaskSettles(c, i)
    \/ \E c \in 1..MaxCalls, m \in Manifests : DepTaskSettles(c, m)
    \/ \E c \in 1..MaxCalls, i \in 1..Cardinality(AllPaths) : StatSettles(c, i)
    \/ \E c \in 1..MaxCalls : StoreStat(c)
    \/ \E c \in 1..MaxCalls, ioOk \in BOOLEAN : StoreWrite(c, ioOk)
    \/ \E tree \in Trees, bump \in BOOLEAN : Modify(tree, bump)
    \/ Tick
    \/ ClearCache

Spec == InitAnalyze /\ [][Next]_vars

(***************************************************************************)
(* Properties of analyze and its cache.                                    *)
(***************************************************************************)
Done(c) == calls[c].pc = "done"
Returned(c) == Done(c) /\ calls[c].result.kind = "record"
Steps == {"scan", "languages", "type", "features", "dependencies", "metrics"}

\* C1: when analyze() is called twice in a row and the folder is not
\* modified from the start of the first call to the second call's lookup,
\* the first call stored its record, the entry is at most maxAge old at the
\* lookup, and the cache was neither emptied nor unreadable in between, then
\* the second call returns a record equal to the first call's and runs none
\* of scan, classification, dependency extraction and metrics calculation.
C1_SecondCallHits ==
    \A c \in 1..(MaxCalls - 1) :
        ( /\ Done(c) /\ Done(c + 1)
          /\ calls[c].stored
          /\ calls[c + 1].verLookup = calls[c].verStart
          /\ calls[c + 1].lookupTime - calls[c].storeTime <= maxAge
          /\ calls[c + 1].clearsAtLookup = calls[c].clearsAtStore
          /\ ~calls[c + 1].lookupFault )
        => ( /\ calls[c + 1].hit
             /\ calls[c + 1].result = calls[c].result
             /\ calls[c + 1].ran \cap Steps = {} )

\* a second call answered from the cache, at the very age maxAge, with a
\* record that names a language
C1_Witness ==
    /\ Done(1) /\ Done(2)
    /\ calls[1].stored
    /\ calls[2].hit
    /\ calls[2].lookupTime - calls[1].storeTime = maxAge
    /\ calls[2].result = calls[1].result
    /\ calls[2].result.value.languages # <<>>

\* C2: when the folder's modification time at the second call's lookup
\* differs from its modification time when the first call returned, the
\* second call is not answered from the cache: it runs the scan and every
\* sub-analysis, returns the record it computed, and writes it under a key
\* of its own; the entry is there unless the write fails.
C2_ModifiedFolderMisses ==
    \A c \in 1..(MaxCalls - 1) :
        ( /\ Done(c) /\ Done(c + 1)
          /\ calls[c + 1].mtimeLookup # calls[c].mtimeEnd )
        => ( /\ ~calls[c + 1].hit
             /\ Steps \subseteq calls[c + 1].ran
             /\ calls[c + 1].result.kind = "record"
             /\ calls[c + 1].storeKey # NoKey
             /\ calls[c + 1].storeKey # calls[c].storeKey
             /\ ( /\ calls[c + 1].stored
                  /\ clears = calls[c + 1].clearsAtStore
                  /\ \A d \in (c + 2)..MaxCalls : ~calls[d].stored )
                => ( /\ calls[c + 1].storeKey \in DOMAIN cacheFiles
                     /\ jsonParse(cacheFiles[calls[c + 1].storeKey].content)
                           = calls[c + 1].result.value ) )

\* the folder gets a new top-level file after the first call stored its
\* record; the second call recomputes and stores a second entry
C2_Witness ==
    /\ Done(1) /\ Done(2)
    /\ calls[1].stored /\ calls[2].stored
    /\ calls[2].mtimeLookup # calls[1].mtimeEnd
    /\ ~calls[2].hit
    /\ calls[2].result.value # calls[1].result.value
    /\ Cardinality(DOMAIN cacheFiles) = 2

\* the bytes calculateMetrics can stat in the files of set S
RECURSIVE StatableBytes(_)
StatableBytes(S) ==
    IF S = {} THEN 0
    ELSE LET q == CHOOSE q \in S : TRUE
         IN  (IF fs.cond[q] = "gone" THEN 0 ELSE SizeOf(q)) + StatableBytes(S \ {q})

ManifestPaths == { manifestPath(m) : m \in Manifests }

C4_InvalidPathFails ==
    \A c \in 1..MaxCalls :
        (Done(c) /\ fs.kind \in {"missing", "file"})
        => (calls[c].result.kind = "error" /\ ~calls[c].stored)

\* the buckets of a categorization as sets of paths
Buckets(f) ==
    [ scripts |-> Range(f.scripts), configs |-> Range(f.configs), docs |-> Range(f.docs),
      services |-> Range(f.services), tests |-> Range(f.tests) ]

\* C5: two analyze() calls that both compute their record, on a folder not
\* edited from the start of the earlier to the end of the later, return the
\* same set of languages, the same project type, the same set of files in
\* every category and the same metrics, in whatever order the scan lists
\* the files and the reads and stat calls of either call complete.
C5_Deterministic ==
    \A c, d \in 1..MaxCalls :
        ( /\ c < d
          /\ Returned(c) /\ Returned(d)
          /\ ~calls[c].hit /\ ~calls[d].hit
          /\ calls[c].verStart = calls[d].verEnd )
        => ( /\ Range(calls[c].result.value.languages)
                   = Range(calls[d].result.value.languages)
             /\ calls[c].result.value.type = calls[d].result.value.type
             /\ Buckets(calls[c].result.value.files) = Buckets(calls[d].result.value.files)
             /\ calls[c].result.value.metrics = calls[d].result.value.metrics )

\* the cache is emptied after the first call stored its record; the second
\* call recomputes, its files and tasks in another order, and the records
\* differ though the four parts agree
C5_Witness ==
    /\ Returned(1) /\ Returned(2)
    /\ calls[1].stored /\ ~calls[2].hit
    /\ calls[2].clearsAtLookup > calls[1].clearsAtStore
    /\ calls[1].verStart = calls[2].verEnd
    /\ calls[1].result.value # calls[2].result.value
    /\ calls[1].result.value.metrics = calls[2].result.value.metrics
    /\ calls[1].result.value.metrics.totalSize > 0

\* the call c takes its lookup step in this transition
Looks(c) == calls[c].pc = "lookupGet" /\ calls'[c].pc # "lookupGet"

\* the age, at this moment, of the entry under key k
AgeOf(k) == now - cacheFiles[k].mtime

\* C12: a lookup step never returns an entry older than maxAge (3,600,000
\* ms): the call goes on to the scan as after a miss; an entry younger than
\* maxAge under the looked-up key is returned as written unless the read
\* fails.
C12_ExpiredNeverReturned ==
    [][ \A c \in 1..MaxCalls :
          (Looks(c) /\ calls[c].key \in DOMAIN cacheFiles)
          => ( /\ AgeOf(calls[c].key) > maxAge
                  => (~calls'[c].hit /\ calls'[c].pc = "scan")
               /\ (AgeOf(calls[c].key) < maxAge /\ ~calls'[c].lookupFault)
                  => ( /\ calls'[c].hit
                       /\ calls'[c].result =
                             [kind |-> "record",
                              value |-> jsonParse(cacheFiles[calls[c].key].content)] ) ) ]_vars

\* the second call looked up the entry the first call wrote, found it older
\* than maxAge, and recomputed
C12_Witness ==
    /\ Done(1) /\ Done(2)
    /\ calls[1].stored
    /\ calls[2].verLookup = calls[1].verStart
    /\ calls[2].clearsAtLookup = calls[1].clearsAtStore
    /\ ~calls[2].lookupFault
    /\ calls[2].lookupTime - calls[1].storeTime > maxAge
    /\ ~calls[2].hit
    /\ Steps \subseteq calls[2].ran

\* the call c takes its cache write step in this transition
Writes(c) == calls[c].pc = "storeWrite" /\ calls'[c].pc # "storeWrite"

\* C13: a cache operation that fails never fails analyze(): a lookup whose
\* read of an existing entry fails is a miss and the call goes on to compute;
\* a call whose write fails still returns the record it computed; and a call
\* on a directory that met either failure ends with a record.
C13_CacheFailuresNotFatal ==
    /\ [][ \A c \in 1..MaxCalls :
             /\ (Looks(c) /\ calls'[c].lookupFault)
                => (~calls'[c].hit /\ calls'[c].pc = "scan")
             /\ (Writes(c) /\ ~calls'[c].stored)
                => ( /\ calls'[c].pc = "done"
                     /\ calls'[c].result = [kind |-> "record", value |-> calls[c].analysis] )
         ]_vars
    /\ [](\A c \in 1..MaxCalls :
             (Done(c) /\ fs.kind = "dir" /\ calls[c].lookupFault)
             => (calls[c].result.kind = "record" /\ Steps \subseteq calls[c].ran))

\* the second call could not read the entry the first call wrote, computed
\* its record, could not write it either, and returned it
C13_Witness ==
    /\ Done(1) /\ Done(2)
    /\ calls[1].stored
    /\ calls[2].lookupFault
    /\ calls[2].storeKey # NoKey /\ ~calls[2].stored
    /\ calls[2].result.kind = "record"
    /\ calls[2].result.value.languages # <<>>

\* C19: when the folder's modification time changes while a call runs,
\* between its lookup and its store, and the call stores its record, a next
\* call that finds the folder as the first one left it and is answered from
\* the cache gets a record of the folder as it is: every file is counted.
C19_NoStaleEntry ==
    \A c \in 1..(MaxCalls - 1) :
        ( /\ Done(c) /\ Done(c + 1)
          /\ fs.kind = "dir"
          /\ calls[c].stored
          /\ calls[c].storeKey[2] # calls[c].mtimeLookup
          /\ calls[c + 1].verLookup = calls[c].verEnd
          /\ calls[c + 1].hit
          /\ fs.version = calls[c].verEnd )
        => calls[c + 1].result.value.metrics.fileCount = Cardinality(fs.tree)

(***************************************************************************)
(* Concurrent analyze() calls on one folder that nobody edits: a call may  *)
(* be made while another is running, and their steps interleave freely.    *)
(***************************************************************************)
InitConcurrent ==
    /\ \E tree \in Trees :
          fs = [kind |-> "dir", mtime |-> 0, size |-> 4096, tree |-> tree,
                cond |-> [q \in tree |-> "ok"], version |-> 0]
    /\ cacheFiles = <<>>
    /\ now = 0
    /\ clears = 0
    /\ calls = [c \in 1..MaxCalls |-> NewCall]
    /\ IdleClassify
    /\ IdleRequirements
    /\ IdleMetrics
    /\ IdleTools

\* analyze(sourcePath) is called, whatever the other calls are doing
StartConcurrent(c) ==
    /\ calls[c].pc = "idle"
    /\ calls' = [calls EXCEPT ![c] = [NewCall EXCEPT !.pc = "lookupStat",
                                                     !.verStart = fs.version]]
    /\ UNCHANGED <<fs, cacheFiles, now, clears, Others>>

NextConcurrent ==
    \/ \E c \in 1..MaxCalls : StartConcurrent(c)
    \/ \E c \in 1..MaxCalls : LookupStat(c)
    \/ \E c \in 1..MaxCalls, ioOk \in BOOLEAN : LookupGet(c, ioOk)
    \/ \E c \in 1..MaxCalls, order \in AllListings : Scan(c, order)
    \/ \E c \in 1..MaxCalls, i \in 1..Cardinality(AllPaths) : ContentTaskSettles(c, i)
    \/ \E c \in 1..MaxCalls, m \in Manifests : DepTaskSettles(c, m)
    \/ \E c \in 1..MaxCalls, i \in 1..Cardinality(AllPaths) : StatSettles(c, i)
    \/ \E c \in 1..MaxCalls : StoreStat(c)
    \/ \E c \in 1..MaxCalls, ioOk \in BOOLEAN : StoreWrite(c, ioOk)

SpecConcurrent == InitConcurrent /\ [][NextConcurrent]_vars

\* the fingerprint of the folder as it is
Fingerprint == getCacheKey(sourcePath, fs.mtime, fs.size)

\* C20: two concurrent analyze() calls on the same unchanged folder both
\* return a record, the two records are equal, every write replaces the
\* entry under the folder's fingerprint by the writer's record and touches
\* no other entry, and the cache never holds an entry under another key.
C20_ConcurrentCallsAgree ==
    /\ [](\A c, d \in 1..MaxCalls :
             (Done(c) /\ Done(d))
             => ( /\ calls[c].result.kind = "record"
                  /\ calls[c].result = calls[d].result ))
    /\ [](DOMAIN cacheFiles \subseteq {Fingerprint})
    /\ [][ \A c \in 1..MaxCalls :
             (Writes(c) /\ calls'[c].stored)
             => ( /\ DOMAIN cacheFiles' = {Fingerprint}
                  /\ jsonParse(cacheFiles'[Fingerprint].content) = calls'[c].result.value )
         ]_vars

\* C21: the four manifest extractions share no mutable state, so the package
\* dependency result of analyzeDependencies is the same for every order in
\* which the reads complete: two calls on the same unchanged folder return
\* the same package list
C21_ManifestOrderIrrelevant ==
    \A c \in 1..MaxCalls, d \in 1..MaxCalls :
        (Returned(c) /\ Returned(d)) =>
            calls[c].result.value.dependencies.package
                = calls[d].result.value.dependencies.package

\* the part of C21 the code keeps: the same names, whatever their order, and
\* the same system dependencies
C21_SameNames ==
    \A c \in 1..MaxCalls, d \in 1..MaxCalls :
        (Returned(c) /\ Returned(d)) =>
            /\ Range(calls[c].result.value.dependencies.package)
                 = Range(calls[d].result.value.dependencies.package)
            /\ calls[c].result.value.dependencies.system
                 = calls[d].result.value.dependencies.system

(***************************************************************************)
(* One analyze() call on a folder with more files than the concurrency     *)
(* ceiling and more code files than the content sample: the same steps as  *)
(* above, on a folder nobody edits.  The scan lists the files in one of a  *)
(* few orders that differ in where api/server.py, the one file with        *)
(* content labels, stands among the code files.                            *)
(***************************************************************************)
P_u01_js == <<"u","0","1",".","j","s">>
P_u02_js == <<"u","0","2",".","j","s">>
P_u03_js == <<"u","0","3",".","j","s">>
P_u04_js == <<"u","0","4",".","j","s">>
P_u05_js == <<"u","0","5",".","j","s">>
P_u06_js == <<"u","0","6",".","j","s">>
P_u07_js == <<"u","0","7",".","j","s">>
P_u08_js == <<"u","0","8",".","j","s">>
P_u09_js == <<"u","0","9",".","j","s">>
P_u10_js == <<"u","1","0",".","j","s">>

PlainCode == << P_u01_js, P_u02_js, P_u03_js, P_u04_js, P_u05_js, P_u06_js, P_u07_js, P_u08_js, P_u09_js, P_u10_js >>

LargeA == Range(PlainCode) \cup { P_api_server_py, P_requirements_txt, P_app_service }
LargeB == Range(PlainCode) \cup { P_api_server_py, P_requirements_txt, P_go_mod }
LargeTrees == { LargeA, LargeB }
LargePaths == LargeA \cup LargeB

\* the other files of a large tree, in a fixed order
restOf(tree) ==
    (IF P_requirements_txt \in tree THEN <<P_requirements_txt>> ELSE <<>>)
    \o (IF P_app_service \in tree THEN <<P_app_service>> ELSE <<>>)
    \o (IF P_go_mod \in tree THEN <<P_go_mod>> ELSE <<>>)

\* the orders in which the scan lists a large tree: api/server.py before
\* the ten other code files, or after them and the other files
LargeListingsOf(tree) ==
    { <<P_api_server_py>> \o PlainCode \o restOf(tree),
      restOf(tree) \o PlainCode \o <<P_api_server_py>> }

LargeListings == UNION { LargeListingsOf(tree) : tree \in LargeTrees }

\* the files of a large tree that may be unreadable
Faulty(tree) == tree \cap {P_api_server_py, P_requirements_txt, P_go_mod}

InitLarge ==
    /\ \E tree \in LargeTrees, bad \in SUBSET LargePaths :
          /\ bad \subseteq Faulty(tree)
          /\ Cardinality(bad) <= MaxDisturbances
          /\ fs = [kind |-> "dir", mtime |-> 0, size |-> 4096, tree |-> tree,
                   cond |-> [q \in tree |-> IF q \in bad THEN "unreadable" ELSE "ok"],
                   version |-> 0]
    /\ cacheFiles = <<>>
    /\ now = 0
    /\ clears = 0
    /\ calls = [c \in 1..MaxCalls |-> NewCall]
    /\ IdleClassify
    /\ IdleRequirements
    /\ IdleMetrics
    /\ IdleTools

NextLarge ==
    \/ StartAnalyze(1)
    \/ LookupStat(1)
    \/ \E ioOk \in BOOLEAN : LookupGet(1, ioOk)
    \/ \E order \in LargeListings : Scan(1, order)
    \/ \E i \in 1..Cardinality(LargePaths) : ContentTaskSettles(1, i)
    \/ \E m \in Manifests : DepTaskSettles(1, m)
    \/ \E i \in 1..Cardinality(LargePaths) : StatSettles(1, i)
    \/ StoreStat(1)
    \/ \E ioOk \in BOOLEAN : StoreWrite(1, ioOk)

SpecLarge == InitLarge /\ [][NextLarge]_vars

\* the filesystem operations of call c in flight: content reads, manifest
\* reads and stat calls
inFlight(c) ==
    Cardinality({ i \in 1..Len(calls[c].contentTasks) : calls[c].contentTasks[i].status = "active" })
    + Cardinality({ m \in Manifests : calls[c].depTasks[m] = "reading" })
    + Cardinality({ i \in 1..Len(calls[c].metricTasks) : calls[c].metricTasks[i].status = "active" })

\* the tasks of call c that wait for a free slot
waiting(c) ==
    { i \in 1..Len(calls[c].contentTasks) : calls[c].contentTasks[i].status = "queued" }
    \cup { i \in 1..Len(calls[c].metricTasks) : calls[c].metricTasks[i].status = "queued" }

\* C22: at every moment the filesystem operations in flight that one
\* analyze() call has issued (content reads, manifest reads and stat calls
\* together) number at most 10, for every listing size
C22_AtMostTenInFlight ==
    \A c \in 1..MaxCalls : inFlight(c) <= concurrency

C22_Witness ==
    /\ Len(calls[1].files) > concurrency
    /\ inFlight(1) = concurrency
    /\ waiting(1) # {}

\* the packageDeps array when the four manifest tasks push in task order
packageDepsInTaskOrder(folder, files) ==
    LET read(path) == readFile(folder, path)
        d1 == analyzePackageJson(listed(files, P_package_json), read(P_package_json), <<>>)
        d2 == analyzeRequirementsTxt(
                  [listed |-> listed(files, P_requirements_txt),
                   ok |-> read(P_requirements_txt).ok,
                   text |-> read(P_requirements_txt).text], d1)
        d3 == analyzeCargoToml(listed(files, P_Cargo_toml), read(P_Cargo_toml), d2)
    IN  analyzeGoMod(listed(files, P_go_mod), read(P_go_mod), d3)

\* the record analyze() computes from a listing of the folder
analysisOf(folder, files) ==
    LET code == codeFilesOf(files)
        contentResults == [i \in 1..Len(code) |-> contentTask(readFile(folder, code[i])).value]
        results == [i \in 1..Len(files) |-> metricTask(statFile(folder, files[i]))]
    IN  [ type |-> inferProjectType(files),
          languages |-> detectLanguages(files),
          features |-> dedup(fileFeatures(files, 1, <<>>) \o flat(contentResults)),
          files |-> categorizeFiles(files),
          dependencies |-> dependenciesOf(files, packageDepsInTaskOrder(folder, files)),
          metrics |-> metricsOf(files, results) ]

\* one listing of the tree, to compare the others with
ReferenceListing(tree) == <<P_api_server_py>> \o PlainCode \o restOf(tree)

\* the two records agree in everything but the features
sameButFeatures(got, ref) ==
    /\ got.type = ref.type
    /\ Range(got.languages) = Range(ref.languages)
    /\ Range(got.dependencies.package) = Range(ref.dependencies.package)
    /\ Range(got.dependencies.system) = Range(ref.dependencies.system)
    /\ got.metrics = ref.metrics

\* C25: the analysis does not depend on the order of the paths in the
\* FileListing: whatever the order of the scan, the archetype, the language
\* set, the feature set, the package and system dependency sets and the
\* metrics are those of every other listing of the same paths
C25_ListingOrderIrrelevant ==
    Returned(1) =>
        LET got == calls[1].result.value
            ref == analysisOf(fs, ReferenceListing(fs.tree))
        IN  /\ sameButFeatures(got, ref)
            /\ Range(got.features) = Range(ref.features)

\* the part of C25 the code keeps: everything but the feature set is the
\* same for every order
C25_OrderIrrelevantButFeatures ==
    Returned(1) =>
        sameButFeatures(calls[1].result.value, analysisOf(fs, ReferenceListing(fs.tree)))

\* the paths of the listing that end in .py, .js or .ts and have fewer
\* than ten such paths before them
sampled(files) ==
    { files[i] : i \in { k \in 1..Len(files) :
                          /\ isCodeFile(files[k])
                          /\ Cardinality({ j \in 1..(k - 1) : isCodeFile(files[j]) }) < 10 } }

\* the labels found in the text of a file
labelsIn(path) == Range(contentFeaturesOf(TextOf(path)))

\* the labels extractFeatures takes from the paths of the listing
pathLabels(files) == Range(fileFeatures(files, 1, <<>>))

\* call c has the features of its listing
HasFeatures(c) == "features" \in calls[c].ran /\ calls[c].pc # "done"

\* C27: extractFeatures reads the contents of at most 10 files, namely the
\* first 10 paths of the listing that end in .py, .js or .ts, however many
\* files the listing contains; the content labels come only from those
\* files, and a sampled file that cannot be read contributes no label
C27_ContentSampleOfTen ==
    /\ [](\A c \in 1..MaxCalls :
            /\ Len(calls[c].contentTasks) <= 10
            /\ calls[c].pc = "features" =>
                   Len(calls[c].contentTasks) = Cardinality(sampled(calls[c].files)))
    /\ [][ \A c \in 1..MaxCalls :
              (calls[c].pc = "features" /\ calls'[c].pc \notin {"features", "done"}) =>
                  Range(calls'[c].features)
                    = pathLabels(calls[c].files)
                      \cup UNION { labelsIn(q) : q \in { r \in sampled(calls[c].files) :
                                                             fs.cond[r] = "ok" } } ]_vars

\* eleven code files, api/server.py the eleventh and readable: its labels
\* are not among the features
C27_Witness ==
    /\ HasFeatures(1)
    /\ Cardinality({ i \in 1..Len(calls[1].files) : isCodeFile(calls[1].files[i]) }) > 10
    /\ P_api_server_py \notin sampled(calls[1].files)
    /\ fs.cond[P_api_server_py] = "ok"
    /\ labelsIn(P_api_server_py) # {}
    /\ labelsIn(P_api_server_py) \cap Range(calls[1].features) = {}

\* ten code files sampled, api/server.py among them and unreadable: no label
C27_WitnessUnreadable ==
    /\ HasFeatures(1)
    /\ P_api_server_py \in sampled(calls[1].files)
    /\ fs.cond[P_api_server_py] = "unreadable"
    /\ labelsIn(P_api_server_py) \cap Range(calls[1].features) = {}

\* the names the readable manifests of the listing declare
declaredIn(files) ==
    Range(packageDepsInTaskOrder(fs, files))

\* analyzeDependencies of call c returns
DependenciesReturn(c) ==
    calls[c].pc = "dependencies" /\ calls'[c].pc \notin {"dependencies", "done"}

\* C29: system-dependency inference is evaluated over the complete package
\* dependency set, after all four manifest extractions have finished: the
\* system list holds chromium and chromedriver exactly when some declared
\* package name contains 'selenium', postgresql exactly when some name
\* contains 'postgres', systemd exactly when the listing has a path ending
\* in .service, nothing else, and each at most once
C29_SystemDependencies ==
    [][ \A c \in 1..MaxCalls :
          DependenciesReturn(c) =>
              LET system == calls'[c].dependencies.system
                  package == calls'[c].dependencies.package
                  names == declaredIn(calls[c].files)
              IN  /\ Range(package) = names
                  /\ ("chromium" \in Range(system)) <=> (\E d \in names : includes(d, K_selenium))
                  /\ ("chromedriver" \in Range(system)) <=> (\E d \in names : includes(d, K_selenium))
                  /\ ("postgresql" \in Range(system)) <=> (\E d \in names : includes(d, K_postgres))
                  /\ ("systemd" \in Range(system))
                        <=> (\E i \in 1..Len(calls[c].files) : endsWith(calls[c].files[i], E_service))
                  /\ Range(system) \subseteq {"chromium", "chromedriver", "postgresql", "systemd"}
                  /\ Cardinality(Range(system)) = Len(system) ]_vars

\* requirements.txt (selenium) and go.mod (postgres/pq) both read, the
\* requirements last: the system list has the three inferred packages
C29_Witness ==
    /\ "dependencies" \in calls[1].ran
    /\ calls[1].pc # "done"
    /\ listed(calls[1].files, P_requirements_txt)
    /\ listed(calls[1].files, P_go_mod)
    /\ calls[1].packageDeps[Len(calls[1].packageDeps)] = <<"s","e","l","e","n","i","u","m">>
    /\ calls[1].dependencies.system = <<"chromium", "chromedriver", "postgresql">>

\* a .service file listed and requirements.txt unreadable: systemd alone
C29_WitnessSystemd ==
    /\ "dependencies" \in calls[1].ran
    /\ calls[1].pc # "done"
    /\ fs.cond[P_requirements_txt] = "unreadable"
    /\ calls[1].dependencies.system = <<"systemd">>

(***************************************************************************)
(* The scan of the source folder (src/src/analyzer.ts, scanFiles):         *)
(* fast-glob matches '**/*' against the path of every file relative to the *)
(* scanned folder, and drops the paths an ignore pattern matches.  An      *)
(* ignore pattern is matched against the whole relative path: 'dir/**'     *)
(* matches the paths whose first segment is dir, '*.log' the paths of one  *)
(* segment that end in .log, a literal the path equal to it.  With         *)
(* dot: false, '**/*' matches no path that has a segment starting with a   *)
(* dot.                                                                    *)
(***************************************************************************)
MaxScanFiles == 3   \* most files on disk below the scanned folder

D_node_modules == <<"n","o","d","e","_","m","o","d","u","l","e","s">>
D_git == <<".","g","i","t">>
D_target == <<"t","a","r","g","e","t">>
D_pycache == <<"_","_","p","y","c","a","c","h","e","_","_">>
D_dist == <<"d","i","s","t">>
D_build == <<"b","u","i","l","d">>
D_next == <<".","n","e","x","t">>
D_coverage == <<"c","o","v","e","r","a","g","e">>
X_log == <<".","l","o","g">>
N_DS_Store == <<".","D","S","_","S","t","o","r","e">>
N_Thumbs_db == <<"T","h","u","m","b","s",".","d","b">>

\* the directory names of the ignore list
ignoredDirs == { D_node_modules, D_git, D_target, D_pycache, D_dist, D_build, D_next, D_coverage }

G_src_app_ts == <<"s","r","c","/","a","p","p",".","t","s">>
G_nm_index_js == <<"n","o","d","e","_","m","o","d","u","l","e","s","/","l","i","b","/","i","n","d","e","x",".","j","s">>
G_pkg_nm_index_js == <<"p","a","c","k","a","g","e","s","/","a","p","p","/","n","o","d","e","_","m","o","d","u","l","e","s","/","l","i","b","/","i","n","d","e","x",".","j","s">>
G_git_config == <<".","g","i","t","/","c","o","n","f","i","g">>
G_sub_git_config == <<"s","u","b","/",".","g","i","t","/","c","o","n","f","i","g">>
G_dist_out_js == <<"d","i","s","t","/","o","u","t",".","j","s">>
G_sub_dist_out_js == <<"s","u","b","/","d","i","s","t","/","o","u","t",".","j","s">>
G_debug_log == <<"d","e","b","u","g",".","l","o","g">>
G_logs_debug_log == <<"l","o","g","s","/","d","e","b","u","g",".","l","o","g">>
G_coverage_lcov == <<"c","o","v","e","r","a","g","e","/","l","c","o","v",".","i","n","f","o">>
G_web_next_cache_js == <<"w","e","b","/",".","n","e","x","t","/","c","a","c","h","e",".","j","s">>
G_web_build_a_o == <<"w","e","b","/","b","u","i","l","d","/","a",".","o">>
G_env == <<".","e","n","v">>
G_Thumbs_db == N_Thumbs_db

\* the files that may be on disk below the scanned folder
ScanCandidates == { G_src_app_ts, G_nm_index_js, G_pkg_nm_index_js, G_git_config, G_sub_git_config, G_dist_out_js, G_sub_dist_out_js, G_debug_log, G_logs_debug_log, G_coverage_lcov, G_web_next_cache_js, G_web_build_a_o, G_env, G_Thumbs_db }

\* the positions of the separators of a relative path
slashes(p) == { i \in 1..Len(p) : p[i] = "/" }

\* the names of the directories a relative path runs through
dirSegments(p) ==
    { SubSeq(p, a + 1, b - 1) :
        <<a, b>> \in { ab \in ({0} \cup slashes(p)) \X slashes(p) :
                        /\ ab[1] < ab[2]
                        /\ \A i \in slashes(p) : ~(ab[1] < i /\ i < ab[2]) } }

\* the names of all segments of a relative path
segmentsOf(p) == dirSegments(p) \cup { basename(p) }

\* the ignore pattern 'dir/**'
matchesDirPattern(dir, p) == p = dir \/ startsWith(p, dir \o <<"/">>)

\* the ignore pattern '*.log'
matchesStarPattern(suffix, p) == slashes(p) = {} /\ endsWith(p, suffix)

\* the ignore list of scanFiles
isIgnored(p) ==
    \/ \E dir \in ignoredDirs : matchesDirPattern(dir, p)
    \/ matchesStarPattern(X_log, p)
    \/ p = N_DS_Store
    \/ p = N_Thumbs_db

\* dot: false
isHidden(p) == \E seg \in segmentsOf(p) : Len(seg) > 0 /\ seg[1] = "."

\* the files fast-glob returns for the folder
globFiles(tree) == { p \in tree : ~isHidden(p) /\ ~isIgnored(p) }

IdleCore == IdleClassify /\ IdleRequirements /\ IdleMetrics /\ IdleAnalyze

InitScan ==
    /\ scanTree \in { t \in SUBSET ScanCandidates : Cardinality(t) <= MaxScanFiles }
    /\ scanOut = NoListing
    /\ IdleCore
    /\ IdleKey
    /\ IdleCopy
    /\ IdleFrame
    /\ IdleSafe
    /\ IdleCreate

\* scanFiles(sourcePath): the listing holds the files in the order fast-glob
\* found them
ScanFolder ==
    /\ ~scanOut.done
    /\ \E order \in Orderings(globFiles(scanTree)) :
          scanOut' = [done |-> TRUE, files |-> order]
    /\ UNCHANGED scanTree
    /\ UNCHANGED <<varsClassify, varsRequirements, varsMetrics, varsAnalyze,
                   varsFrame, varsSafe, varsCreate, varsKey, varsCopy>>

NextScan == ScanFolder

SpecScan == InitScan /\ [][NextScan]_vars

\* a path lies under an excluded directory, at any depth
underExcluded(p) == dirSegments(p) \cap ignoredDirs # {}

\* C11: the FileListing returned by the scan contains no path that lies
\* under node_modules or another excluded directory (.git, target,
\* __pycache__, dist, build, .next, coverage), whether that directory is a
\* direct child of the scanned folder or nested deeper
C11_NoExcludedPaths ==
    scanOut.done => \A i \in 1..Len(scanOut.files) : ~underExcluded(scanOut.files[i])

\* the part of C11 the code keeps: no listed path lies under an excluded
\* directory that is a direct child of the scanned folder, or under a
\* directory whose name starts with a dot
C11_TopLevelExcluded ==
    scanOut.done =>
        \A i \in 1..Len(scanOut.files) :
            /\ \A dir \in ignoredDirs : ~startsWith(scanOut.files[i], dir \o <<"/">>)
            /\ \A seg \in dirSegments(scanOut.files[i]) : seg[1] # "."

(***************************************************************************)
(* What analyze() writes (src/src/utils/cache.ts).  A path is the sequence *)
(* of its segment names below the root, so that "lies under" is the prefix *)
(* relation.  The Cache keeps its entries in join(homedir(), '.f2g',       *)
(* 'cache'), wherever the source folder is.                                *)
(***************************************************************************)
Homes == { <<"home", "u">>, <<"root">> }

SourcePaths ==
    { <<"home", "u", "proj">>, <<"srv", "proj">>, <<"home", "u">>, <<"home">>,
      <<>>, <<"home", "u", ".f2g">>, <<"home", "u", ".f2g", "cache">>, <<"root">> }

\* constructor: this.cacheDir = join(homedir(), '.f2g', 'cache')
cacheDir(home) == home \o <<".f2g", "cache">>

\* the paths from the root down to p
prefixes(p) == { SubSeq(p, 1, n) : n \in 0..Len(p) }

\* p is the folder or lies under it
isUnder(p, folder) == folder \in prefixes(p)

\* ensureCacheDir: mkdir(cacheDir, {recursive: true}) makes the directories
\* of the path that are missing; its error is swallowed
ensureCacheDir(disk, home, ok) == IF ok THEN prefixes(cacheDir(home)) \ disk ELSE {}

\* the file of an entry: join(this.cacheDir, `${key}.json`)
cacheFile(home) == cacheDir(home) \o <<"analysis_key.json">>

InitFrame ==
    /\ frHome \in Homes
    /\ frSource \in SourcePaths
    /\ \E sourceExists \in BOOLEAN, made \in 0..2 :
          frDisk = prefixes(frHome)
                   \cup (IF sourceExists THEN prefixes(frSource) ELSE {})
                   \cup { SubSeq(cacheDir(frHome), 1, Len(frHome) + n) : n \in 0..made }
    /\ frCreated = {}
    /\ frPc = "lookup"
    /\ IdleCore
    /\ IdleKey
    /\ IdleCopy
    /\ IdleScan
    /\ IdleSafe
    /\ IdleCreate

OthersFrame == <<varsClassify, varsRequirements, varsMetrics, varsAnalyze,
                 varsScan, varsSafe, varsCreate, varsKey, varsCopy>>

\* getAnalysisCache(sourcePath): nothing when the stat fails; else get(),
\* which makes the cache directory and reads the entry
GetAnalysisCache(mkdirOk, hit) ==
    /\ frPc = "lookup"
    /\ IF frSource \notin frDisk
       THEN /\ ~hit /\ mkdirOk
            /\ frPc' = "analyze"
            /\ UNCHANGED <<frDisk, frCreated>>
       ELSE /\ hit => cacheDir(frHome) \in frDisk
            /\ frDisk' = frDisk \cup ensureCacheDir(frDisk, frHome, mkdirOk)
            /\ frCreated' = frCreated \cup ensureCacheDir(frDisk, frHome, mkdirOk)
            /\ frPc' = IF hit THEN "done" ELSE "analyze"
    /\ UNCHANGED <<frHome, frSource>>
    /\ UNCHANGED OthersFrame

\* the scan and the analyses: they read the folder and write nothing; the
\* scan may throw
AnalyzeFolder(ok) ==
    /\ frPc = "analyze"
    /\ frPc' = IF ok THEN "store" ELSE "failed"
    /\ UNCHANGED <<frHome, frSource, frDisk, frCreated>>
    /\ UNCHANGED OthersFrame

\* setAnalysisCache(sourcePath, analysis): nothing when the stat fails; else
\* set(), which makes the cache directory and writes the entry file; a
\* failed write is swallowed
SetAnalysisCache(mkdirOk, writeOk) ==
    /\ frPc = "store"
    /\ frPc' = "done"
    /\ IF frSource \notin frDisk
       THEN /\ mkdirOk /\ writeOk
            /\ UNCHANGED <<frDisk, frCreated>>
       ELSE LET made == ensureCacheDir(frDisk, frHome, mkdirOk)
                written == IF writeOk /\ cacheDir(frHome) \in frDisk \cup made
                           THEN { cacheFile(frHome) } ELSE {}
            IN  /\ frDisk' = frDisk \cup made
                /\ frCreated' = frCreated \cup made \cup written
    /\ UNCHANGED <<frHome, frSource>>
    /\ UNCHANGED OthersFrame

NextFrame ==
    \/ \E mkdirOk, hit \in BOOLEAN : GetAnalysisCache(mkdirOk, hit)
    \/ \E ok \in BOOLEAN : AnalyzeFolder(ok)
    \/ \E mkdirOk, writeOk \in BOOLEAN : SetAnalysisCache(mkdirOk, writeOk)

SpecFrame == InitFrame /\ [][NextFrame]_vars

\* C14: analyze() leaves the source tree unchanged: every file or directory
\* it creates or writes lies outside the source folder, for every source path
C14_SourceTreeUnchanged ==
    \A p \in frCreated : ~isUnder(p, frSource)

\* the part of C14 the code keeps: what analyze() creates or writes is the
\* cache directory, its missing parents below the home directory, and the
\* entry file
C14_WritesOnlyCache ==
    \A p \in frCreated : isUnder(p, frHome \o <<".f2g">>)

(***************************************************************************)
(* The safe shell front end (src/folder2github_safe.sh), from main on: the *)
(* arguments are parsed and valid.  shEffects lists the changes the run    *)
(* makes to the disk: "backup" (cp -rp of the target to the backup         *)
(* directory), "mkdir" (of the target), "copy" (cp -rp into the target),   *)
(* "merge" (rsync or cp -i into the target), "chmod" (find -exec chmod).   *)
(***************************************************************************)
Options == [dryRun : BOOLEAN, force : BOOLEAN, backup : BOOLEAN,
            merge : BOOLEAN, checkOnly : BOOLEAN]

\* check_target_directory_safety: status 0 when the target is no directory,
\* 1 when it exists
check_target_directory_safety(exists) == IF exists THEN 1 ELSE 0

\* the branch of main taken for an existing target, were the last branch to
\* go on instead of aborting
handleExistingGoesOn(opts) ==
    IF opts.checkOnly THEN "checkAbort"
    ELSE IF opts.force THEN "force"
    ELSE IF opts.backup THEN "backup"
    ELSE IF opts.merge THEN "merge"
    ELSE "force"

\* the branch of main taken for an existing target
handleExisting(opts) ==
    IF opts.checkOnly THEN "checkAbort"
    ELSE IF opts.force THEN "force"
    ELSE IF opts.backup THEN "backup"
    ELSE IF opts.merge THEN "merge"
    ELSE "abort"

\* create_backup, were the copy not guarded by DRY_RUN
create_backupAlways(opts, cpOk) == IF cpOk THEN <<"backup">> ELSE <<>>

\* create_backup: the copy is made unless the run is a dry run; it runs in a
\* command substitution, where a failing cp does not end the script
create_backup(opts, cpOk) ==
    IF ~opts.dryRun /\ cpOk THEN <<"backup">> ELSE <<>>

\* merge_directories: rsync, or cp -i, unless the run is a dry run
merge_directories(opts) == IF ~opts.dryRun THEN <<"merge">> ELSE <<>>

\* [[ -d "$TARGET_DIR" ]] during the run
targetIsDir == shTarget \/ "mkdir" \in Range(shEffects)

InitSafe ==
    /\ shOpts \in Options
    /\ shTarget \in BOOLEAN
    /\ shPc = "step1"
    /\ shEffects = <<>>
    /\ shExit = {}
    /\ IdleCore
    /\ IdleKey
    /\ IdleCopy
    /\ IdleScan
    /\ IdleFrame
    /\ IdleCreate

OthersSafe == <<varsClassify, varsRequirements, varsMetrics, varsAnalyze,
                varsScan, varsFrame, varsCreate, varsKey, varsCopy>>

\* Step 1: safety checks
SafetyChecks(cpOk) ==
    /\ shPc = "step1"
    /\ IF check_target_directory_safety(shTarget) = 0
       THEN /\ cpOk
            /\ shPc' = "step2"
            /\ UNCHANGED <<shEffects, shExit>>
       ELSE LET branch == handleExisting(shOpts)
            IN  /\ (branch # "backup" \/ shOpts.dryRun) => cpOk
                /\ shPc' = IF branch \in {"checkAbort", "abort"} THEN "exited" ELSE "step2"
                /\ shExit' = IF branch \in {"checkAbort", "abort"} THEN {1} ELSE {}
                /\ shEffects' = IF branch = "backup"
                                THEN shEffects \o create_backup(shOpts, cpOk)
                                ELSE shEffects
    /\ UNCHANGED <<shOpts, shTarget>>
    /\ UNCHANGED OthersSafe

\* Step 2: create or prepare the target directory; under set -e a failing
\* mkdir ends the script
PrepareTarget(mkdirOk) ==
    /\ shPc = "step2"
    /\ IF ~shOpts.dryRun /\ ~shOpts.checkOnly /\ ~targetIsDir
       THEN IF mkdirOk
            THEN /\ shEffects' = Append(shEffects, "mkdir")
                 /\ shPc' = "step3"
                 /\ UNCHANGED shExit
            ELSE /\ shPc' = "exited"
                 /\ shExit' = {1}
                 /\ UNCHANGED shEffects
       ELSE /\ mkdirOk
            /\ shPc' = "step3"
            /\ UNCHANGED <<shEffects, shExit>>
    /\ UNCHANGED <<shOpts, shTarget>>
    /\ UNCHANGED OthersSafe

\* Step 3: copy the files with the appropriate method, then make the shell
\* scripts executable
CopyFiles ==
    /\ shPc = "step3"
    /\ shEffects' = IF ~shOpts.dryRun /\ ~shOpts.checkOnly
                    THEN shEffects
                         \o (IF shOpts.merge THEN merge_directories(shOpts) ELSE <<"copy">>)
                         \o <<"chmod">>
                    ELSE shEffects
    /\ shPc' = "rest"
    /\ UNCHANGED <<shOpts, shTarget, shExit>>
    /\ UNCHANGED OthersSafe

\* the end of main: exit 0 of a check-only run, or the closing messages
Finish ==
    /\ shPc = "rest"
    /\ shPc' = "exited"
    /\ shExit' = {0}
    /\ UNCHANGED <<shOpts, shTarget, shEffects>>
    /\ UNCHANGED OthersSafe

NextSafe ==
    \/ \E cpOk \in BOOLEAN : SafetyChecks(cpOk)
    \/ \E mkdirOk \in BOOLEAN : PrepareTarget(mkdirOk)
    \/ CopyFiles
    \/ Finish

SpecSafe == InitSafe /\ [][NextSafe]_vars

NoHandling ==
    ~shOpts.force /\ ~shOpts.backup /\ ~shOpts.merge /\ ~shOpts.checkOnly

\* C15: when the target directory already exists and none of --force,
\* --backup, --merge, --check-only is given, the script aborts with exit
\* status 1 before it creates, copies or modifies any file
C15_DefaultAborts ==
    (shTarget /\ NoHandling) =>
        /\ shEffects = <<>>
        /\ shPc \in {"step1", "exited"}
        /\ shPc = "exited" => shExit = {1}

C15_Witness ==
    /\ shTarget /\ NoHandling /\ ~shOpts.dryRun
    /\ shPc = "exited"
    /\ shExit = {1}
    /\ shEffects = <<>>

\* C16: whenever --backup is given, the target directory exists and the run
\* is neither a dry run nor a check-only run, a backup copy of the target is
\* made before any file is copied or merged into the target, whatever other
\* options are combined with --backup
C16_BackupBeforeCopy ==
    (shOpts.backup /\ shTarget /\ ~shOpts.dryRun /\ ~shOpts.checkOnly) =>
        \A i \in 1..Len(shEffects) :
            shEffects[i] \in {"copy", "merge"} =>
                \E j \in 1..(i - 1) : shEffects[j] = "backup"

\* the part of C16 the code keeps: with --backup and without --force, a
\* backup copy that succeeds is the first change the run makes
C16_BackupWithoutForce ==
    (shOpts.backup /\ ~shOpts.force /\ shTarget /\ ~shOpts.dryRun /\ ~shOpts.checkOnly) =>
        \A i \in 1..Len(shEffects) : shEffects[i] = "backup" => i = 1

\* C17: with --check-only or --dry-run the script creates no directory,
\* copies or merges no file, makes no backup copy and changes no file
\* permission, for every combination of the other options and whether or
\* not the target directory exists
C17_NoChangeWhenDryOrCheck ==
    (shOpts.dryRun \/ shOpts.checkOnly) => shEffects = <<>>

C17_Witness ==
    /\ shOpts.dryRun /\ shOpts.backup /\ ~shOpts.force /\ ~shOpts.checkOnly
    /\ shTarget
    /\ shPc = "exited"
    /\ shExit = {0}
    /\ shEffects = <<>>

(***************************************************************************)
(* The create pipeline (src/src/cli.ts, executeCreation) over the methods  *)
(* of Folder2GitHub (src/src/folder2github.ts).  The tasks run one after   *)
(* the other with nothing in between, so the run is one step.  crEffects   *)
(* lists what the run did: "analyze" (the analysis, which reads the folder *)
(* and writes the cache), "hookBefore"/"hookAfter" (plugin hooks), "docs"  *)
(* (files written into the target directory), "tempDir" (the temporary     *)
(* directory made), "copy" (the source copied into it), "git" (git init    *)
(* to git commit), "repos.get", "repos.create", "repos.replaceAllTopics"   *)
(* (GitHub API requests), "git remote add", "git push", "rmTemp" (the      *)
(* temporary directory removed), "verify" (the verifier's requests).       *)
(* Error messages are JavaScript strings.                                  *)
(***************************************************************************)
NoStatus == 0   \* an error without a status property (error.status is undefined)

GetStatuses == {200, 404, 401, 403, 500, NoStatus}

RunOptions ==
    [ dryRun : BOOLEAN,      \* options.dryRun
      verify : BOOLEAN,      \* options.verify
      plugins : BOOLEAN,     \* pluginManager.hasPlugins()
      topics : BOOLEAN,      \* options.topics is a non-empty array
      analyzeOk : BOOLEAN,   \* the analysis of the source resolves
      hookOk : BOOLEAN,      \* the plugin hooks resolve
      copyOk : BOOLEAN,      \* the copies and writes into the temporary directory succeed
      gitOk : BOOLEAN,       \* git init ... git commit succeed
      getStatus : GetStatuses,  \* how repos.get answers: 200, or an error with this status
      createOk : BOOLEAN,    \* repos.createForAuthenticatedUser succeeds
      pushOk : BOOLEAN,      \* git push succeeds
      verifyOk : BOOLEAN ]   \* the verifier does not report FAILED

NoError == <<>>

\* the messages of the errors the methods make themselves
MustBeAnalyzed == <<"P","r","o","j","e","c","t"," ","m","u","s","t"," ","b","e"," ","a","n","a","l","y","z","e","d"," ","f","i","r","s","t">>
PathArgument == <<"T","h","e"," ","\"","p","a","t","h","\""," ","a","r","g","u","m","e","n","t"," ","m","u","s","t"," ","b","e"," ","o","f"," ","t","y","p","e"," ","s","t","r","i","n","g","."," ","R","e","c","e","i","v","e","d"," ","u","n","d","e","f","i","n","e","d">>
TargetNotSet == <<"T","a","r","g","e","t"," ","d","i","r","e","c","t","o","r","y"," ","n","o","t"," ","s","e","t">>
GitInitFailed == <<"G","i","t"," ","i","n","i","t","i","a","l","i","z","a","t","i","o","n"," ","f","a","i","l","e","d",":"," ">>
AlreadyExists == <<"R","e","p","o","s","i","t","o","r","y"," ","'","d","e","m","o","'"," ","a","l","r","e","a","d","y"," ","e","x","i","s","t","s">>
AuthenticationFailed == <<"G","i","t","H","u","b"," ","a","u","t","h","e","n","t","i","c","a","t","i","o","n"," ","f","a","i","l","e","d","."," ","C","h","e","c","k"," ","y","o","u","r"," ","t","o","k","e","n"," ","c","o","n","f","i","g","u","r","a","t","i","o","n",".">>
RateLimit == <<"G","i","t","H","u","b"," ","A","P","I"," ","r","a","t","e"," ","l","i","m","i","t"," ","e","x","c","e","e","d","e","d"," ","o","r"," ","i","n","s","u","f","f","i","c","i","e","n","t"," ","p","e","r","m","i","s","s","i","o","n","s",".">>
CreationFailed == <<"G","i","t","H","u","b"," ","r","e","p","o","s","i","t","o","r","y"," ","c","r","e","a","t","i","o","n"," ","f","a","i","l","e","d",":"," ">>
VerificationFailed == <<"V","e","r","i","f","i","c","a","t","i","o","n"," ","f","a","i","l","e","d",":"," ">>

\* the messages of errors that come from outside
EnvFailed == <<"o","p","e","r","a","t","i","o","n"," ","f","a","i","l","e","d">>
HttpError == <<"r","e","q","u","e","s","t"," ","f","a","i","l","e","d">>
CommandFailed == <<"C","o","m","m","a","n","d"," ","f","a","i","l","e","d">>

\* a Folder2GitHub just constructed: analysis and targetDir are undefined
NewFolder2GitHub ==
    [analysis |-> FALSE, targetDir |-> FALSE, effects |-> <<>>, calls |-> <<>>,
     threw |-> FALSE, error |-> NoError]

throws(st, message) == [st EXCEPT !.threw = TRUE, !.error = message]

does(st, what) == [st EXCEPT !.effects = @ \o what]

\* a method is entered
called(st, method) ==
    [st EXCEPT !.calls = Append(@, method), !.threw = FALSE, !.error = NoError]

\* Folder2GitHub.analyze
f2gAnalyze(st, opts) ==
    LET in == called(st, "analyze")
    IN  IF opts.analyzeOk
        THEN [does(in, <<"analyze">>) EXCEPT !.analysis = TRUE]
        ELSE throws(in, EnvFailed)

\* pluginManager.executeHook
executeHook(st, opts, hook) ==
    IF opts.hookOk THEN does(st, <<hook>>)
    ELSE throws(does([st EXCEPT !.error = NoError], <<hook>>), EnvFailed)

\* Folder2GitHub.generateDocs: join(this.targetDir!, 'README.md') throws a
\* TypeError while targetDir is undefined
generateDocs(st, opts) ==
    LET in == called(st, "generateDocs")
    IN  IF ~in.analysis THEN throws(in, MustBeAnalyzed)
        ELSE IF ~in.targetDir THEN throws(in, PathArgument)
        ELSE IF opts.copyOk THEN does(in, <<"docs">>)
        ELSE throws(in, EnvFailed)

\* Folder2GitHub.createStructure
createStructure(st, opts) ==
    LET in == [does(called(st, "createStructure"), <<"tempDir">>) EXCEPT !.targetDir = TRUE]
    IN  IF opts.copyOk THEN does(in, <<"copy">>) ELSE throws(in, EnvFailed)

\* Folder2GitHub.initGit
initGit(st, opts) ==
    LET in == called(st, "initGit")
    IN  IF ~in.targetDir THEN throws(in, TargetNotSet)
        ELSE IF opts.gitOk THEN does(in, <<"git">>)
        ELSE throws(does(in, <<"git">>), GitInitFailed \o CommandFailed)

\* the existence check with an inner catch that lets every error of
\* repos.get pass
existenceCheckLenient(opts) ==
    IF opts.getStatus = 200
    THEN [thrown |-> TRUE, status |-> NoStatus, message |-> AlreadyExists]
    ELSE [thrown |-> FALSE, status |-> opts.getStatus, message |-> HttpError]

\* the existence check of createGitHubRepo, with its inner catch: the error
\* that leaves it, or a record with thrown FALSE.  The error made after a
\* successful repos.get has no status.
existenceCheck(opts) ==
    LET error == IF opts.getStatus = 200
                 THEN [thrown |-> TRUE, status |-> NoStatus, message |-> AlreadyExists]
                 ELSE [thrown |-> TRUE, status |-> opts.getStatus, message |-> HttpError]
    IN  IF error.status # 404 THEN error ELSE [error EXCEPT !.thrown = FALSE]

\* the outer catch of createGitHubRepo: the message of the error it throws
outerCatch(error) ==
    IF error.status = 401 THEN AuthenticationFailed
    ELSE IF error.status = 403 THEN RateLimit
    ELSE IF includes(error.message, <<"a","l","r","e","a","d","y"," ","e","x","i","s","t","s">>) THEN error.message
    ELSE CreationFailed \o error.message

\* Folder2GitHub.createGitHubRepo: the finally block removes the temporary
\* directory on every way out but the first
createGitHubRepo(st, opts) ==
    LET in == called(st, "createGitHubRepo")
        check == existenceCheck(opts)
        request == IF opts.topics THEN <<"repos.create", "repos.replaceAllTopics">>
                   ELSE <<"repos.create">>
    IN  IF ~in.targetDir THEN throws(in, TargetNotSet)
        ELSE IF check.thrown
        THEN throws(does(in, <<"repos.get", "rmTemp">>), outerCatch(check))
        ELSE IF ~opts.createOk
        THEN throws(does(in, <<"repos.get", "repos.create", "rmTemp">>),
                    outerCatch([status |-> 422, message |-> HttpError]))
        ELSE IF ~opts.pushOk
        THEN throws(does(in, <<"repos.get">> \o request \o <<"git remote add", "git push", "rmTemp">>),
                    outerCatch([status |-> NoStatus, message |-> CommandFailed]))
        ELSE does(in, <<"repos.get">> \o request \o <<"git remote add", "git push", "rmTemp">>)

\* Folder2GitHub.verify
verify(st, opts) ==
    LET in == called(st, "verify")
    IN  IF opts.verifyOk THEN does(in, <<"verify">>)
        ELSE throws(does(in, <<"verify">>), VerificationFailed)

\* the Listr task list of executeCreation, by title
tasks ==
    << "Analyzing project",
       "Executing plugins (before generation)",
       "Generating documentation",
       "Creating repository structure",
       "Executing plugins (after generation)",
       "Initializing Git repository",
       "Creating GitHub repository",
       "Verifying upload" >>

\* the skip option of each task
skip(title, opts) ==
    CASE title = "Executing plugins (before generation)" -> ~opts.plugins
      [] title = "Executing plugins (after generation)" -> ~opts.plugins \/ opts.dryRun
      [] title = "Initializing Git repository" -> opts.dryRun
      [] title = "Creating GitHub repository" -> opts.dryRun
      [] title = "Verifying upload" -> opts.dryRun \/ ~opts.verify
      [] OTHER -> FALSE

\* the task option of each task
task(title, st, opts) ==
    CASE title = "Analyzing project" -> f2gAnalyze(st, opts)
      [] title = "Executing plugins (before generation)" -> executeHook(st, opts, "hookBefore")
      [] title = "Generating documentation" -> generateDocs(st, opts)
      [] title = "Creating repository structure" -> createStructure(st, opts)
      [] title = "Executing plugins (after generation)" -> executeHook(st, opts, "hookAfter")
      [] title = "Initializing Git repository" -> initGit(st, opts)
      [] title = "Creating GitHub repository" -> createGitHubRepo(st, opts)
      [] title = "Verifying upload" -> verify(st, opts)

\* tasks.run() from task i on: not concurrent, and the first task that
\* throws ends the run
RECURSIVE runTasks(_, _, _)
runTasks(i, st, opts) ==
    IF i > Len(tasks) THEN st
    ELSE IF skip(tasks[i], opts) THEN runTasks(i + 1, st, opts)
    ELSE LET after == task(tasks[i], st, opts)
         IN  IF after.threw THEN after ELSE runTasks(i + 1, after, opts)

DryRunCompleted == "Dry run completed - no changes made"
CreatedSuccessfully == "Repository created successfully!"

InitCreate ==
    /\ crOpts \in RunOptions
    /\ crPc = "start"
    /\ crAnalysis = FALSE
    /\ crTargetDir = FALSE
    /\ crEffects = <<>>
    /\ crReport = Unset
    /\ crCalls = <<>>
    /\ crError = NoError
    /\ IdleCore
    /\ IdleKey
    /\ IdleCopy
    /\ IdleScan
    /\ IdleFrame
    /\ IdleSafe

\* executeCreation(f2g, source, options): the tasks, then the closing
\* message; an error of a task is rethrown
ExecuteCreation ==
    /\ crPc = "start"
    /\ LET end == runTasks(1, NewFolder2GitHub, crOpts)
       IN  /\ crAnalysis' = end.analysis
           /\ crTargetDir' = end.targetDir
           /\ crEffects' = end.effects
           /\ crCalls' = end.calls
           /\ crError' = end.error
           /\ crPc' = IF end.threw THEN "failed" ELSE "done"
           /\ crReport' = IF end.threw THEN Unset
                          ELSE IF crOpts.dryRun THEN DryRunCompleted
                          ELSE CreatedSuccessfully
    /\ UNCHANGED crOpts
    /\ UNCHANGED <<varsClassify, varsRequirements, varsMetrics, varsAnalyze,
                   varsScan, varsFrame, varsSafe, varsKey, varsCopy>>

NextCreate == ExecuteCreation

SpecCreate == InitCreate /\ [][NextCreate]_vars

\* what reaches beyond the machine or runs git
Outward ==
    {"git", "repos.get", "repos.create", "repos.replaceAllTopics",
     "git remote add", "git push", "verify"}

\* C18: a run of executeCreation with dryRun set runs no git command, sends
\* no GitHub API request, pushes nothing and runs no verification, on every
\* path through the pipeline, and then reports that the dry run completed
\* with no changes made (unless the analysis, a plugin hook or the copy
\* into the temporary directory fails)
C18_DryRunNoChangeThenReport ==
    (crOpts.dryRun /\ crPc # "start") =>
        /\ Range(crEffects) \cap Outward = {}
        /\ (crOpts.analyzeOk /\ crOpts.hookOk /\ crOpts.copyOk) => crReport = DryRunCompleted

\* the part of C18 the code keeps: a dry run does nothing outward
C18_DryRunNothingOutward ==
    (crOpts.dryRun /\ crPc # "start") => Range(crEffects) \cap Outward = {}

\* what the code does instead of reporting: every run, dry or not, fails in
\* 'Generating documentation' or before it, and no closing message is printed
C18_NeverReports ==
    crPc # "start" =>
        /\ crPc = "failed"
        /\ crReport = Unset
        /\ ~crTargetDir
        /\ Range(crEffects) \subseteq {"analyze", "hookBefore"}

\* position of the first call of a method in crCalls, or 0
firstCall(method) ==
    IF \E i \in 1..Len(crCalls) : crCalls[i] = method
    THEN CHOOSE i \in 1..Len(crCalls) :
             crCalls[i] = method /\ \A j \in 1..(i - 1) : crCalls[j] # method
    ELSE 0

\* the errors a method throws because analysis or targetDir is undefined
PrerequisiteErrors == {MustBeAnalyzed, PathArgument, TargetNotSet}

\* C23: in executeCreation every step runs only when its prerequisites
\* hold: generateDocs runs only after analyze and after createStructure,
\* initGit and createGitHubRepo run only after createStructure, and no step
\* fails because the analysis or the target directory is unset
C23_PrerequisitesHold ==
    crPc # "start" =>
        /\ \A m \in {"generateDocs", "initGit", "createGitHubRepo"} :
               firstCall(m) > 0 =>
                   (firstCall("createStructure") > 0 /\ firstCall("createStructure") < firstCall(m))
        /\ firstCall("generateDocs") > 0 =>
               (firstCall("analyze") > 0 /\ firstCall("analyze") < firstCall("generateDocs"))
        /\ crError \notin PrerequisiteErrors

\* the part of C23 the code keeps: generateDocs runs after analyze, and no
\* step fails because the analysis is unset
C23_AnalysisFirst ==
    crPc # "start" =>
        /\ firstCall("generateDocs") > 0 =>
               (firstCall("analyze") > 0 /\ firstCall("analyze") < firstCall("generateDocs"))
        /\ crError # MustBeAnalyzed

\* what the code does instead: when the analysis and the hooks succeed,
\* generateDocs is called with targetDir undefined, path.join throws, and
\* createStructure, initGit and createGitHubRepo are never called
C23_DocsBeforeStructure ==
    (crPc # "start" /\ crOpts.analyzeOk /\ (crOpts.plugins => crOpts.hookOk)) =>
        /\ crPc = "failed"
        /\ crCalls = <<"analyze", "generateDocs">>
        /\ crError = PathArgument

(***************************************************************************)
(* The methods of Folder2GitHub called one by one by a client of the       *)
(* class, in any order, on one object.  As in Listr, the first call that   *)
(* rejects ends the run; a run also ends when the client stops calling.    *)
(***************************************************************************)
MaxMethodCalls == 3   \* method calls made on the object in one behaviour

\* the options and answers of the environment that the methods read
MethodOptions ==
    { o \in RunOptions : ~o.dryRun /\ o.verify /\ ~o.plugins /\ o.analyzeOk /\ o.hookOk }

InitMethods ==
    /\ crOpts \in MethodOptions
    /\ crPc = "object"
    /\ crAnalysis = FALSE
    /\ crTargetDir = FALSE
    /\ crEffects = <<>>
    /\ crReport = Unset
    /\ crCalls = <<>>
    /\ crError = NoError
    /\ IdleCore
    /\ IdleKey
    /\ IdleCopy
    /\ IdleScan
    /\ IdleFrame
    /\ IdleSafe

OthersMethods == <<varsClassify, varsRequirements, varsMetrics, varsAnalyze,
                   varsScan, varsFrame, varsSafe, varsKey, varsCopy>>

\* the object as the fields hold it
thisObject ==
    [analysis |-> crAnalysis, targetDir |-> crTargetDir, effects |-> crEffects,
     calls |-> crCalls, threw |-> FALSE, error |-> NoError]

mayCall == crPc = "object" /\ Len(crCalls) < MaxMethodCalls

\* a method returns or rejects, leaving the object as after
settles(after) ==
    /\ crAnalysis' = after.analysis
    /\ crTargetDir' = after.targetDir
    /\ crEffects' = after.effects
    /\ crCalls' = after.calls
    /\ crError' = after.error
    /\ crPc' = IF after.threw THEN "failed" ELSE "object"
    /\ UNCHANGED <<crOpts, crReport>>
    /\ UNCHANGED OthersMethods

CallAnalyze == mayCall /\ settles(f2gAnalyze(thisObject, crOpts))

CallGenerateDocs == mayCall /\ settles(generateDocs(thisObject, crOpts))

CallCreateStructure == mayCall /\ settles(createStructure(thisObject, crOpts))

CallInitGit == mayCall /\ settles(initGit(thisObject, crOpts))

CallCreateGitHubRepo == mayCall /\ settles(createGitHubRepo(thisObject, crOpts))

CallVerify == mayCall /\ settles(verify(thisObject, crOpts))

\* the client makes no further call
EndRun ==
    /\ crPc = "object"
    /\ crCalls # <<>>
    /\ crPc' = "done"
    /\ UNCHANGED <<crOpts, crAnalysis, crTargetDir, crEffects, crReport, crCalls, crError>>
    /\ UNCHANGED OthersMethods

NextMethods ==
    \/ CallAnalyze
    \/ CallGenerateDocs
    \/ CallCreateStructure
    \/ CallInitGit
    \/ CallCreateGitHubRepo
    \/ CallVerify
    \/ EndRun

SpecMethods == InitMethods /\ [][NextMethods]_vars

\* what the last call did
lastEffects(before, after) == SubSeq(after, Len(before) + 1, Len(after))

\* the requests of createGitHubRepo that make or change something
Creating == {"repos.create", "repos.replaceAllTopics", "git remote add", "git push"}

C24_WitnessOtherStatus ==
    /\ crOpts.getStatus = 500
    /\ crOpts.createOk /\ crOpts.pushOk
    /\ crCalls = <<"createStructure", "createGitHubRepo">>
    /\ crEffects = <<"tempDir", "copy", "repos.get", "rmTemp">>
    /\ crPc = "failed"
    /\ crError = CreationFailed \o HttpError

\* and with status 404 the repository is created and pushed
C24_WitnessAbsent ==
    /\ crOpts.getStatus = 404
    /\ crOpts.topics
    /\ crCalls = <<"createStructure", "initGit", "createGitHubRepo">>
    /\ crEffects = <<"tempDir", "copy", "git", "repos.get", "repos.create",
                     "repos.replaceAllTopics", "git remote add", "git push", "rmTemp">>
    /\ crPc = "object"

\* whether the temporary directory exists: it was made, and not removed since
tempDirExists ==
    \E i \in 1..Len(crEffects) :
        /\ crEffects[i] = "tempDir"
        /\ \A j \in (i + 1)..Len(crEffects) : crEffects[j] # "rmTemp"

\* C28: every temporary target directory created by createStructure is
\* removed by the end of the run: when a run has ended, by success, by the
\* failure of initGit, of createGitHubRepo or of verification, or without
\* createGitHubRepo being called, the directory no longer exists
C28_TempDirRemoved ==
    crPc \in {"done", "failed"} => ~tempDirExists

\* the part of C28 the code keeps: when createGitHubRepo has returned or
\* failed on an object whose targetDir is set, the directory is gone
C28_RemovedByCreateGitHubRepo ==
    (crCalls # <<>> /\ crCalls[Len(crCalls)] = "createGitHubRepo" /\ crTargetDir) =>
        ~tempDirExists

\* what the code does instead: only createGitHubRepo removes the directory,
\* so a run that ends without calling it, such as one that ends in a
\* failure of initGit, leaves the directory behind
C28_OthersLeaveDirectory ==
    (crPc \in {"done", "failed"} /\ firstCall("createStructure") > 0 /\
     firstCall("createGitHubRepo") = 0) =>
        tempDirExists

(***************************************************************************)
(* The key of the analysis cache (src/src/utils/cache.ts, getAnalysisCache *)
(* and setAnalysisCache), for analyze() calls that name folders by path    *)
(* strings from different working directories.  Two folders exist; they    *)
(* are not modified.  sha256 is taken to be injective on the records that  *)
(* are hashed, so a key is represented by the record it is the hash of.    *)
(***************************************************************************)
MaxKeyCalls == 2   \* analyze() calls in one behaviour

Folder1 == <<"/","w","1","/","p","r","o","j">>
Folder2 == <<"/","w","2","/","p","r","o","j">>
KeyFolders == {Folder1, Folder2}

\* process.cwd() of the calling process
WorkingDirs == {<<"/","w","1">>, <<"/","w","2">>}

\* the sourcePath arguments
PathStrings == {<<"p","r","o","j">>, Folder1, Folder2}

StatValues == [mtime : {1, 2}, size : {1, 2}]

\* the folder a path string names for the file system calls
resolve(cwd, path) ==
    IF path # <<>> /\ path[1] = "/" THEN path ELSE cwd \o <<"/">> \o path

\* Cache.getCacheKey on the record built by getAnalysisCache and
\* setAnalysisCache: the path string as given, stats.mtime.getTime(), stats.size
analysisKey(given, stats) ==
    [path |-> given, mtime |-> stats.mtime, size |-> stats.size]

InitKey ==
    /\ keyStat \in [KeyFolders -> StatValues]
    /\ keyStore = {}
    /\ keyLog = <<>>
    /\ IdleCore
    /\ IdleScan
    /\ IdleFrame
    /\ IdleSafe
    /\ IdleCreate
    /\ IdleCopy

OthersKey == <<varsClassify, varsRequirements, varsMetrics, varsAnalyze,
               varsScan, varsFrame, varsSafe, varsCreate, varsCopy>>

\* one analyze(sourcePath) call made with working directory cwd: the cache
\* is asked; on a miss the folder is analysed and the result is stored
AnalyzeByPath(cwd, given) ==
    /\ Len(keyLog) < MaxKeyCalls
    /\ LET folder == resolve(cwd, given)
           key == analysisKey(given, keyStat[folder])
           entries == { e \in keyStore : e.key = key }
           hit == entries # {}
           served == IF hit THEN (CHOOSE e \in entries : TRUE).folder ELSE folder
       IN  /\ keyStore' = IF hit THEN keyStore
                          ELSE keyStore \cup {[key |-> key, folder |-> folder]}
           /\ keyLog' = Append(keyLog, [cwd |-> cwd, path |-> given, folder |-> folder,
                                        key |-> key, hit |-> hit, served |-> served])
    /\ UNCHANGED keyStat
    /\ UNCHANGED OthersKey

NextKey == \E cwd \in WorkingDirs, given \in PathStrings : AnalyzeByPath(cwd, given)

SpecKey == InitKey /\ [][NextKey]_vars

\* C26: the cache entry used for a folder is determined by the folder's
\* absolute path, its modification time and its size: two analyze() calls
\* that name the same unchanged folder by different path strings use the
\* same entry, and two calls that name different folders by the same
\* relative path string never use the same entry
C26_KeyByAbsolutePath ==
    \A i, j \in 1..Len(keyLog) :
        /\ keyLog[i].folder = keyLog[j].folder => keyLog[i].key = keyLog[j].key
        /\ keyLog[i].folder # keyLog[j].folder => keyLog[i].key # keyLog[j].key

\* what the code does instead: the entry is determined by the path string
\* as given, the modification time and the size
C26_KeyByPathString ==
    \A i, j \in 1..Len(keyLog) :
        keyLog[i].key = keyLog[j].key <=>
            /\ keyLog[i].path = keyLog[j].path
            /\ keyStat[keyLog[i].folder] = keyStat[keyLog[j].folder]

\* the part of C26 the code keeps: calls that give absolute paths use the
\* same entry exactly when they name the same folder
C26_AbsolutePathsKeyed ==
    \A i, j \in 1..Len(keyLog) :
        (keyLog[i].path = keyLog[i].folder /\ keyLog[j].path = keyLog[j].folder) =>
            (keyLog[i].key = keyLog[j].key <=> keyLog[i].folder = keyLog[j].folder)

\* that a call is never served the analysis of another folder: it is
\* violated when two folders of equal time and size are both named "proj"
C26_ServedOwnAnalysis ==
    \A i \in 1..Len(keyLog) : keyLog[i].served = keyLog[i].folder

(***************************************************************************)
(* copyDirectory calls on one FileOperations object                        *)
(* (src/src/utils/file-operations.ts) and its ProgressTracker              *)
(* (src/src/utils/progress.ts).  The calls are made one after the other;   *)
(* the copy tasks of a call settle one by one, each by success or failure. *)
(***************************************************************************)
MaxCopyCalls == 2   \* copyDirectory calls in one behaviour
MaxCopyFiles == 2   \* most files a call finds in its source directory

\* ProgressTracker.getProgress, without the message
getProgress(progress) ==
    [current |-> progress.current, total |-> progress.total,
     percentage |-> IF progress.total > 0
                    THEN (progress.current * 100) \div progress.total ELSE 0]

\* new FileOperations(): a new ProgressTracker, no call under way
InitCopy ==
    /\ cpProgress = [current |-> 0, total |-> 0]
    /\ cpListeners = 0
    /\ cpEvents = <<>>
    /\ cpRun = [pc |-> "idle", pending |-> 0, made |-> 0, copied |-> 0]
    /\ IdleCore
    /\ IdleScan
    /\ IdleFrame
    /\ IdleSafe
    /\ IdleCreate
    /\ IdleKey

OthersCopy == <<varsClassify, varsRequirements, varsMetrics, varsAnalyze,
                varsScan, varsFrame, varsSafe, varsCreate, varsKey>>

\* copyDirectory up to the start of the copy tasks: the scan finds n files,
\* progress.setTotal(n) emits an event, and a listener is added when the
\* caller gave onProgress
StartCopy(n, onProgress) ==
    /\ cpRun.pc = "idle"
    /\ cpRun.made < MaxCopyCalls
    /\ cpProgress' = [cpProgress EXCEPT !.total = n]
    /\ cpEvents' = Append(cpEvents, getProgress(cpProgress'))
    /\ cpListeners' = IF onProgress THEN cpListeners + 1 ELSE cpListeners
    /\ cpRun' = [cpRun EXCEPT !.pc = "copying", !.pending = n, !.made = @ + 1]
    /\ UNCHANGED OthersCopy

\* one copy task settles: after mkdir and copyFile, progress.increment
\* emits an event; when either fails, the catch logs a warning
CopySettles(ok) ==
    /\ cpRun.pc = "copying"
    /\ cpRun.pending > 0
    /\ cpProgress' = IF ok THEN [cpProgress EXCEPT !.current = @ + 1] ELSE cpProgress
    /\ cpEvents' = IF ok THEN Append(cpEvents, getProgress(cpProgress')) ELSE cpEvents
    /\ cpRun' = [cpRun EXCEPT !.pending = @ - 1,
                              !.copied = IF ok THEN @ + 1 ELSE @]
    /\ UNCHANGED cpListeners
    /\ UNCHANGED OthersCopy

\* Promise.all(copyTasks) resolves and copyDirectory returns
FinishCopy ==
    /\ cpRun.pc = "copying"
    /\ cpRun.pending = 0
    /\ cpRun' = [cpRun EXCEPT !.pc = "idle"]
    /\ UNCHANGED <<cpProgress, cpListeners, cpEvents>>
    /\ UNCHANGED OthersCopy

NextCopy ==
    \/ \E n \in 0..MaxCopyFiles, onProgress \in BOOLEAN : StartCopy(n, onProgress)
    \/ \E ok \in BOOLEAN : CopySettles(ok)
    \/ FinishCopy

SpecCopy == InitCopy /\ [][NextCopy]_vars

\* C30: for every sequence of copyDirectory calls on one FileOperations
\* object, with or without failing copies, every progress event emitted
\* has 0 <= current <= total, so the percentage never exceeds 100
C30_ProgressInRange ==
    \A i \in 1..Len(cpEvents) :
        /\ 0 <= cpEvents[i].current
        /\ cpEvents[i].current <= cpEvents[i].total
        /\ cpEvents[i].percentage <= 100

\* the part of C30 the code keeps: during the first call on the object the
\* events are in range
C30_FirstCallInRange ==
    cpRun.made <= 1 => C30_ProgressInRange

\* what the code does instead: current is never reset, so it counts the
\* files copied by all calls so far, while total is the file count of the
\* latest call
C30_CurrentCountsAllCalls ==
    /\ cpProgress.current = cpRun.copied
    /\ \A i \in 1..Len(cpEvents) : cpEvents[i].current >= 0
    /\ \A i, j \in 1..Len(cpEvents) : i <= j => cpEvents[i].current <= cpEvents[j].current

====
